---- MODULE Spec2Model ----
(***************************************************************************)
(* Admin back-office API (admin-auth-service): the GraphQL mutation        *)
(* resolvers over the relational store, modelled as a state machine.       *)
(*                                                                         *)
(* The store is one record of tables (DB).  Every resolver is an operator  *)
(* from (db, context.user, arguments) to [db, err]: the tables it leaves   *)
(* behind and the message of the error it throws ("OK" when it returns).   *)
(* A failed Prisma call is named by its Prisma error code: P2002 unique    *)
(* constraint, P2003 foreign key constraint, P2025 record not found.       *)
(* Arguments are well-typed values of the schema (request parsing and      *)
(* scalar validation belong to the transport layer).                       *)
(***************************************************************************)
EXTENDS Integers, Sequences, FiniteSets, TLC

\* ------------------------------------------------------------------ bounds
MaxHistory == 2
MaxDocument == 1
MaxInFlight == 2

\* ------------------------------------------------------------------ domains
Null == "NULL"
OK == "OK"
P2002 == "P2002"
P2003 == "P2003"
P2025 == "P2025"

AstroIds == {"a1", "a2"}
AstroEmails == {"x@astro", "y@astro"}
AdminIds == {"adm1", "adm2"}
CallerIds == {"adm1", "adm2"}
Rounds == {1, 2}
DocIds == 1..MaxDocument

ApprovalStatus == {"PENDING", "INTERVIEW", "DOCUMENT_VERIFICATION", "APPROVED", "REJECTED"}
InterviewStatus == {"SCHEDULED", "PASSED", "FAILED", "RESCHEDULED"}
DocumentStatus == {"PENDING", "VERIFIED", "REJECTED"}
DocumentType == {"ID_PROOF", "CERTIFICATE", "EXPERIENCE_PROOF"}
RejectionStage == {"PROFILE", "INTERVIEW", "DOCUMENT"}

\* (stage, reason) pairs a caller rejects with
Rejections == {<<"INTERVIEW", "Not qualified">>, <<"DOCUMENT", "Forged certificate">>}
Remarks == {Null, "Verified"}

Undefined == "UNDEFINED"
\* a string or list argument that is not supplied
Omitted == <<Undefined>>
PermissionIds == {"p1", "p2"}
RoleIds == {"r1", "r2"}
UserIds == {"u1", "u2"}
AdminNames == {"Asha", "Ravi"}
AdminEmails == {"a@corp", "b@corp"}
AdminPhones == {"9990", "9991"}
Mobiles == {"7001", "7002"}
Descriptions == {Undefined, "text"}

\* names are strings of characters
SUPER_ADMIN == <<"S", "U", "P", "E", "R", "_", "A", "D", "M", "I", "N">>
ADMIN == <<"A", "D", "M", "I", "N">>
MANAGER == <<"M", "A", "N", "A", "G", "E", "R">>

UpdateUserInputs == {[mobile |-> m] : m \in Mobiles}
                      \cup {[isActive |-> b] : b \in BOOLEAN}
                      \cup {[mobile |-> m, isActive |-> b] : m \in Mobiles, b \in BOOLEAN}

\* names as callers type them
NameInputs == {<<"a", "d", "m", "i", "n">>,
               <<" ", "S", "u", "p", "e", "r", "_", "a", "d", "m", "i", "n", "\t">>,
               <<" ", " ">>}
\* permission names as callers type them
PermissionNameInputs == {<<"c", "r", "e", "a", "t", "e", "_", "r", "e", "p", "o", "r", "t", "s">>,
                         <<" ", "V", "i", "e", "w", "_", "U", "s", "e", "r", "s", " ">>}
\* permissionIds lists, repeated and unknown ids included
PermissionIdLists == {<<>>, <<"p1">>, <<"p1", "p2">>, <<"p1", "p1">>}

\* context.user: the decoded token payload, or no user.  A payload signed
\* without a role claim has role Null.
NoUser == [id |-> Null, role |-> "NO_USER"]
RoleClaims == {"SUPER_ADMIN", "ADMIN", "MANAGER", Null}
Users == {NoUser, [id |-> "adm1", role |-> "ADMIN"], [id |-> "adm2", role |-> "SUPER_ADMIN"],
          [id |-> "adm3", role |-> "MANAGER"], [id |-> "adm4", role |-> Null]}

\* ------------------------------------------------------------------ state
VARIABLES
  astrologers,       \* Astrologer: id -> [email, approvalStatus]
  addresses,         \* Address rows: set of [astrologerId]
  experiences,       \* ExperiencePlatform rows: set of [astrologerId]
  interviews,        \* Interview rows: set of [astrologerId, roundNumber, status]
  documents,         \* AstrologerDocument: id -> [astrologerId, documentType, status, verifiedBy, verifiedAt, remarks]
  rejectionHistory,  \* AstrologerRejectionHistory rows in insertion (id) order
  permissions,       \* Permission: id -> [name, description]
  roles,             \* Role: id -> [name, description]
  rolePermissions,   \* RolePermission rows: set of [roleId, permissionId]
  admins,            \* Admin: id -> [name, email, roleId]
  users,             \* User: id -> [mobile, isActive, isDeleted]
  calls,             \* resolver calls suspended between their two writes: slot -> call
  reply              \* the response of the request just served, Idle once it is sent

vars == <<astrologers, addresses, experiences, interviews, documents, rejectionHistory,
          permissions, roles, rolePermissions, admins, users, calls, reply>>

DB == [astrologers |-> astrologers, addresses |-> addresses, experiences |-> experiences,
       interviews |-> interviews, documents |-> documents,
       rejectionHistory |-> rejectionHistory, permissions |-> permissions,
       roles |-> roles, rolePermissions |-> rolePermissions, admins |-> admins,
       users |-> users]

EmptyFn == [x \in {} |-> Null]
Idle == [op |-> "idle", role |-> Null, err |-> OK]
NoCall == [op |-> "none"]
Slots == 1..MaxInFlight

Init ==
  /\ astrologers = EmptyFn
  /\ addresses = {}
  /\ experiences = {}
  /\ interviews = {}
  /\ documents = EmptyFn
  /\ rejectionHistory = <<>>
  /\ permissions = EmptyFn
  /\ roles = EmptyFn
  /\ rolePermissions = {}
  /\ admins = EmptyFn
  /\ users = EmptyFn
  /\ calls = [s \in Slots |-> NoCall]
  /\ reply = Idle

\* ------------------------------------------------------------------ helpers
Ok(db) == [db |-> db, err |-> OK]
Fail(db, msg) == [db |-> db, err |-> msg]

\* the function f with key k set to v (insert or overwrite)
Put(f, k, v) == [x \in DOMAIN f \cup {k} |-> IF x = k THEN v ELSE f[x]]
\* the function f without key k
Drop(f, k) == [x \in DOMAIN f \ {k} |-> f[x]]

\* variant: roles are ranked, and SUPER_ADMIN passes every guard
HasRoleRanked(user, allowed) ==
  user # NoUser /\ (user.role \in allowed \/ user.role = "SUPER_ADMIN")

\* !context.user || context.user.role !== R   /   !allowed.includes(role)
HasRole(user, allowed) == user # NoUser /\ user.role \in allowed

\* rows of the five child tables that reference astrologer a
ChildRows(db, a) ==
  [addresses |-> {r \in db.addresses : r.astrologerId = a},
   experiences |-> {r \in db.experiences : r.astrologerId = a},
   interviews |-> {r \in db.interviews : r.astrologerId = a},
   documents |-> {d \in DOMAIN db.documents : db.documents[d].astrologerId = a},
   rejectionHistory |-> {i \in DOMAIN db.rejectionHistory : db.rejectionHistory[i].astrologerId = a}]

HasChildRows(db, a) ==
  LET c == ChildRows(db, a) IN
  c.addresses # {} \/ c.experiences # {} \/ c.interviews # {} \/ c.documents # {}
    \/ c.rejectionHistory # {}

\* ------------------------------------------------------------------ Prisma calls
\* prisma.astrologer.update({ where: { id }, data: { approvalStatus } })
AstrologerSetStatus(db, a, st) ==
  IF a \notin DOMAIN db.astrologers THEN Fail(db, P2025)
  ELSE Ok([db EXCEPT !.astrologers = [@ EXCEPT ![a].approvalStatus = st]])

\* prisma.interview.create: foreign key to Astrologer, unique (astrologerId, roundNumber),
\* status defaults to SCHEDULED
InterviewCreate(db, a, r) ==
  IF a \notin DOMAIN db.astrologers THEN Fail(db, P2003)
  ELSE IF \E i \in db.interviews : i.astrologerId = a /\ i.roundNumber = r THEN Fail(db, P2002)
  ELSE Ok([db EXCEPT !.interviews =
             @ \cup {[astrologerId |-> a, roundNumber |-> r, status |-> "SCHEDULED"]}])

\* variant: the row records the astrologer where the actor belongs
RejectionHistoryCreateMisattributed(db, a, stage, reason, by) ==
  IF a \notin DOMAIN db.astrologers THEN Fail(db, P2003)
  ELSE Ok([db EXCEPT !.rejectionHistory =
             Append(@, [astrologerId |-> a, stage |-> stage, reason |-> reason,
                        rejectedBy |-> a])])

\* prisma.astrologerRejectionHistory.create: foreign key to Astrologer
RejectionHistoryCreate(db, a, stage, reason, by) ==
  IF a \notin DOMAIN db.astrologers THEN Fail(db, P2003)
  ELSE Ok([db EXCEPT !.rejectionHistory =
             Append(@, [astrologerId |-> a, stage |-> stage, reason |-> reason,
                        rejectedBy |-> by])])

\* variant: the child tables reference Astrologer ON DELETE CASCADE
AstrologerDeleteCascade(db, a) ==
  IF a \notin DOMAIN db.astrologers THEN Fail(db, P2025)
  ELSE Ok([db EXCEPT
             !.astrologers = Drop(@, a),
             !.addresses = {r \in @ : r.astrologerId # a},
             !.experiences = {r \in @ : r.astrologerId # a},
             !.interviews = {r \in @ : r.astrologerId # a},
             !.documents = [d \in {x \in DOMAIN @ : @[x].astrologerId # a} |-> @[d]],
             !.rejectionHistory = SelectSeq(@, LAMBDA row : row.astrologerId # a)])

\* prisma.astrologer.delete: every child table references Astrologer ON DELETE RESTRICT
AstrologerDelete(db, a) ==
  IF a \notin DOMAIN db.astrologers THEN Fail(db, P2025)
  ELSE IF HasChildRows(db, a) THEN Fail(db, P2003)
  ELSE Ok([db EXCEPT !.astrologers = Drop(@, a)])

\* ------------------------------------------------------------------ astrologer resolvers
\* addAstrologerService: approvalStatus takes the column default; a unique
\* violation on email is reported as "Astrologer with this email already exists"
\* variant: the new astrologer is written as already approved
addAstrologerServiceApproved(db, newId, email) ==
  IF \E a \in DOMAIN db.astrologers : db.astrologers[a].email = email
  THEN Fail(db, "Astrologer with this email already exists")
  ELSE Ok([db EXCEPT !.astrologers =
             Put(@, newId, [email |-> email, approvalStatus |-> "APPROVED"])])

addAstrologerService(db, newId, email) ==
  IF \E a \in DOMAIN db.astrologers : db.astrologers[a].email = email
  THEN Fail(db, "Astrologer with this email already exists")
  ELSE Ok([db EXCEPT !.astrologers =
             Put(@, newId, [email |-> email, approvalStatus |-> "PENDING"])])

addAstrologer(db, user, newId, email) ==
  IF ~HasRole(user, {"SUPER_ADMIN", "MANAGER"}) THEN Fail(db, "Not authorized")
  ELSE addAstrologerService(db, newId, email)

\* variant: an update writes the whole record back, approvalStatus at its default
updateAstrologerResetting(db, user, a, data) ==
  IF ~HasRole(user, {"SUPER_ADMIN", "MANAGER"}) THEN Fail(db, "Not authorized")
  ELSE IF a \notin DOMAIN db.astrologers THEN Fail(db, "Astrologer not found")
  ELSE Ok([db EXCEPT !.astrologers = [@ EXCEPT ![a].approvalStatus = "PENDING"]])

\* data: UpdateAstrologerInput, here its email field (Null when not supplied)
updateAstrologer(db, user, a, data) ==
  IF ~HasRole(user, {"SUPER_ADMIN", "MANAGER"}) THEN Fail(db, "Not authorized")
  ELSE IF a \notin DOMAIN db.astrologers THEN Fail(db, "Astrologer not found")
  ELSE IF data.email = Null THEN Ok(db)
  ELSE IF \E o \in DOMAIN db.astrologers \ {a} : db.astrologers[o].email = data.email
  THEN Fail(db, P2002)
  ELSE Ok([db EXCEPT !.astrologers = [@ EXCEPT ![a].email = data.email]])

deleteAstrologer(db, user, a) ==
  IF ~HasRole(user, {"SUPER_ADMIN", "MANAGER"}) THEN Fail(db, "Not authorized")
  ELSE IF a \notin DOMAIN db.astrologers THEN Fail(db, "Astrologer not found")
  ELSE AstrologerDelete(db, a)

\* ------------------------------------------------------------------ workflow resolvers
\* variant: the astrologer is approved once none of its documents is unverified
verifyDocumentApproving(db, user, d, status, remarks) ==
  IF ~HasRole(user, {"ADMIN"}) THEN Fail(db, "Admin only")
  ELSE IF d \notin DOMAIN db.documents THEN Fail(db, P2025)
  ELSE LET docs == [db.documents EXCEPT ![d] =
                      [@ EXCEPT !.status = status, !.remarks = remarks,
                                !.verifiedBy = user.id, !.verifiedAt = TRUE]]
           a == db.documents[d].astrologerId
       IN IF \A o \in DOMAIN docs : docs[o].astrologerId = a => docs[o].status = "VERIFIED"
          THEN Ok([db EXCEPT !.documents = docs,
                             !.astrologers = [@ EXCEPT ![a].approvalStatus = "APPROVED"]])
          ELSE Ok([db EXCEPT !.documents = docs])

verifyDocument(db, user, d, status, remarks) ==
  IF ~HasRole(user, {"ADMIN"}) THEN Fail(db, "Admin only")
  ELSE IF d \notin DOMAIN db.documents THEN Fail(db, P2025)
  ELSE Ok([db EXCEPT !.documents = [@ EXCEPT ![d] =
             [@ EXCEPT !.status = status, !.remarks = remarks, !.verifiedBy = user.id,
                       !.verifiedAt = TRUE]]])

\* scheduleInterview: two awaited writes, no transaction.  Up to the first
\* await: the guard and the status update.
scheduleInterviewUpdate(db, user, a) ==
  IF ~HasRole(user, {"ADMIN"}) THEN Fail(db, "Admin only")
  ELSE AstrologerSetStatus(db, a, "INTERVIEW")

\* variant: an astrologer already approved or rejected is not scheduled again
scheduleInterviewGuarded(db, user, a, r) ==
  IF ~HasRole(user, {"ADMIN"}) THEN Fail(db, "Admin only")
  ELSE IF a \in DOMAIN db.astrologers
          /\ db.astrologers[a].approvalStatus \in {"APPROVED", "REJECTED"}
  THEN Fail(db, "Astrologer already processed")
  ELSE LET upd == AstrologerSetStatus(db, a, "INTERVIEW") IN
       IF upd.err # OK THEN upd ELSE InterviewCreate(upd.db, a, r)

\* the whole resolver: the status update stays when the insert throws
scheduleInterview(db, user, a, r) ==
  LET upd == scheduleInterviewUpdate(db, user, a) IN
  IF upd.err # OK THEN upd ELSE InterviewCreate(upd.db, a, r)

\* rejectAstrologer: two awaited writes, no transaction.  Up to the first
\* await: the guard and the history insert.
\* variant: the status is written first, the history row after it
rejectAstrologerCreateStatusFirst(db, user, a, stage, reason) ==
  IF ~HasRole(user, {"ADMIN"}) THEN Fail(db, "Admin only")
  ELSE AstrologerSetStatus(db, a, "REJECTED")

rejectAstrologerCreate(db, user, a, stage, reason) ==
  IF ~HasRole(user, {"ADMIN"}) THEN Fail(db, "Admin only")
  ELSE RejectionHistoryCreate(db, a, stage, reason, user.id)

rejectAstrologer(db, user, a, stage, reason) ==
  LET ins == rejectAstrologerCreate(db, user, a, stage, reason) IN
  IF ins.err # OK THEN ins ELSE AstrologerSetStatus(ins.db, a, "REJECTED")

\* variant: a rejected astrologer is not approved
approveAstrologerGuarded(db, user, a) ==
  IF ~HasRole(user, {"ADMIN"}) THEN Fail(db, "Admin only")
  ELSE IF a \in DOMAIN db.astrologers /\ db.astrologers[a].approvalStatus = "REJECTED"
  THEN Fail(db, "Astrologer was rejected")
  ELSE AstrologerSetStatus(db, a, "APPROVED")

approveAstrologer(db, user, a) ==
  IF ~HasRole(user, {"ADMIN"}) THEN Fail(db, "Admin only")
  ELSE AstrologerSetStatus(db, a, "APPROVED")

\* ------------------------------------------------------------------ names
\* the elements of a list
Range(list) == {list[i] : i \in 1..Len(list)}

Lower == <<"a", "b", "c", "d", "e", "f", "g", "h", "i", "j", "k", "l", "m", "n", "o", "p",
           "q", "r", "s", "t", "u", "v", "w", "x", "y", "z">>
Upper == <<"A", "B", "C", "D", "E", "F", "G", "H", "I", "J", "K", "L", "M", "N", "O", "P",
           "Q", "R", "S", "T", "U", "V", "W", "X", "Y", "Z">>
Whitespace == {" ", "\t"}

\* each lower-case letter with its upper-case letter
UpperMap == [c \in Range(Lower) |-> Upper[CHOOSE i \in 1..Len(Lower) : Lower[i] = c]]

\* String.prototype.toUpperCase, one character
UpperChar(c) == IF c \in DOMAIN UpperMap THEN UpperMap[c] ELSE c

toUpperCase(str) == [i \in 1..Len(str) |-> UpperChar(str[i])]

\* String.prototype.trim: without the leading and the trailing whitespace
trim(str) ==
  LET ink == {i \in 1..Len(str) : str[i] \notin Whitespace} IN
  IF ink = {} THEN <<>>
  ELSE LET lo == CHOOSE i \in ink : \A j \in ink : i <= j
           hi == CHOOSE i \in ink : \A j \in ink : j <= i
       IN SubSeq(str, lo, hi)

\* variant: upper-cased, the surrounding whitespace kept
NormalizeNameUntrimmed(name) == toUpperCase(name)

\* name.trim().toUpperCase()
NormalizeName(name) == toUpperCase(trim(name))

\* a JavaScript string in a condition: the empty string is falsy
Truthy(str) == str # Omitted /\ str # <<>>

\* ------------------------------------------------------------------ permission resolvers
PermissionByName(db, name) == {p \in DOMAIN db.permissions : db.permissions[p].name = name}
RoleByName(db, name) == {r \in DOMAIN db.roles : db.roles[r].name = name}

\* a column left out of create data is NULL
Stored(v) == IF v = Undefined THEN Null ELSE v

createPermission(db, user, newId, name, description) ==
  IF ~HasRole(user, {"SUPER_ADMIN"}) THEN Fail(db, "Only SUPER_ADMIN can create permissions")
  ELSE LET normalizedName == NormalizeName(name) IN
       IF PermissionByName(db, normalizedName) # {} THEN Fail(db, "Permission already exists")
       ELSE Ok([db EXCEPT !.permissions =
                  Put(@, newId, [name |-> normalizedName, description |-> Stored(description)])])

updatePermission(db, user, permissionId, name, description) ==
  IF ~HasRole(user, {"SUPER_ADMIN"}) THEN Fail(db, "Only SUPER_ADMIN can update permissions")
  ELSE IF permissionId \notin DOMAIN db.permissions THEN Fail(db, "Permission not found")
  ELSE LET normalizedName == IF Truthy(name) THEN NormalizeName(name) ELSE Omitted IN
       IF Truthy(name) /\ PermissionByName(db, normalizedName) \ {permissionId} # {}
       THEN Fail(db, "Permission name already exists")
       ELSE Ok([db EXCEPT !.permissions = [@ EXCEPT ![permissionId] =
                  [name |-> IF Truthy(normalizedName) THEN normalizedName ELSE @.name,
                   description |-> IF description # Undefined THEN description
                                   ELSE @.description]]])

\* createPermission up to prisma.permission.create: the guard and the lookup
\* of the normalized name
createPermissionFind(db, user, name) ==
  IF ~HasRole(user, {"SUPER_ADMIN"}) THEN Fail(db, "Only SUPER_ADMIN can create permissions")
  ELSE IF PermissionByName(db, NormalizeName(name)) # {}
  THEN Fail(db, "Permission already exists")
  ELSE Ok(db)

\* the id the database generates for a new Permission row
NewPermissionId(db) == CHOOSE id \in PermissionIds \ DOMAIN db.permissions : TRUE

\* prisma.permission.create: the unique index on name rejects a name in use
PermissionCreate(db, name, description) ==
  IF PermissionByName(db, name) # {} THEN Fail(db, P2002)
  ELSE Ok([db EXCEPT !.permissions =
             Put(@, NewPermissionId(db), [name |-> name, description |-> Stored(description)])])

\* updatePermission up to prisma.permission.update: the guard and the two lookups
updatePermissionFind(db, user, permissionId, name) ==
  IF ~HasRole(user, {"SUPER_ADMIN"}) THEN Fail(db, "Only SUPER_ADMIN can update permissions")
  ELSE IF permissionId \notin DOMAIN db.permissions THEN Fail(db, "Permission not found")
  ELSE IF Truthy(name) /\ PermissionByName(db, NormalizeName(name)) \ {permissionId} # {}
  THEN Fail(db, "Permission name already exists")
  ELSE Ok(db)

\* prisma.permission.update: the row must exist (P2025), the unique index on
\* name rejects a name another row holds
PermissionUpdate(db, permissionId, name, description) ==
  LET normalizedName == IF Truthy(name) THEN NormalizeName(name) ELSE Omitted IN
  IF permissionId \notin DOMAIN db.permissions THEN Fail(db, P2025)
  ELSE IF Truthy(normalizedName) /\ PermissionByName(db, normalizedName) \ {permissionId} # {}
  THEN Fail(db, P2002)
  ELSE Ok([db EXCEPT !.permissions = [@ EXCEPT ![permissionId] =
             [name |-> IF Truthy(normalizedName) THEN normalizedName ELSE @.name,
              description |-> IF description # Undefined THEN description
                              ELSE @.description]]])

\* variant: the permission goes together with the rows that assign it
deletePermissionCascading(db, user, permissionId) ==
  IF ~HasRole(user, {"SUPER_ADMIN"}) THEN Fail(db, "Only SUPER_ADMIN can delete permissions")
  ELSE IF permissionId \notin DOMAIN db.permissions THEN Fail(db, "Permission not found")
  ELSE Ok([db EXCEPT !.rolePermissions = {rp \in @ : rp.permissionId # permissionId},
                     !.permissions = Drop(@, permissionId)])

deletePermission(db, user, permissionId) ==
  IF ~HasRole(user, {"SUPER_ADMIN"}) THEN Fail(db, "Only SUPER_ADMIN can delete permissions")
  ELSE IF permissionId \notin DOMAIN db.permissions THEN Fail(db, "Permission not found")
  ELSE IF \E rp \in db.rolePermissions : rp.permissionId = permissionId
  THEN Fail(db, "Cannot delete permission assigned to roles")
  ELSE Ok([db EXCEPT !.permissions = Drop(@, permissionId)])

\* ------------------------------------------------------------------ role resolvers
\* variant: the list is refused only when none of its ids exists
InvalidPermissionIdsLenient(db, permissionIds) ==
  Range(permissionIds) \cap DOMAIN db.permissions = {}

\* prisma.permission.findMany({ where: { id: { in: permissionIds } } }).length
\*   !== permissionIds.length
InvalidPermissionIds(db, permissionIds) ==
  Cardinality(Range(permissionIds) \cap DOMAIN db.permissions) # Len(permissionIds)

RolePermissionRows(roleId, permissionIds) ==
  {[roleId |-> roleId, permissionId |-> p] : p \in Range(permissionIds)}

createRole(db, user, newId, name, description, permissionIds) ==
  IF ~HasRole(user, {"SUPER_ADMIN"}) THEN Fail(db, "Only SUPER_ADMIN can create roles")
  ELSE LET normalizedName == NormalizeName(name) IN
       IF RoleByName(db, normalizedName) # {} THEN Fail(db, "Role already exists")
       ELSE IF Len(permissionIds) > 0 /\ InvalidPermissionIds(db, permissionIds)
       THEN Fail(db, "One or more permission IDs are invalid")
       ELSE Ok([db EXCEPT
                  !.roles = Put(@, newId, [name |-> normalizedName,
                                           description |-> Stored(description)]),
                  !.rolePermissions = @ \cup RolePermissionRows(newId, permissionIds)])

\* variant: the listed permissions are added to the ones the role holds
updateRoleIncremental(db, user, roleId, name, description, permissionIds) ==
  IF ~HasRole(user, {"SUPER_ADMIN"}) THEN Fail(db, "Only SUPER_ADMIN can update roles")
  ELSE IF roleId \notin DOMAIN db.roles THEN Fail(db, "Role not found")
  ELSE LET normalizedName == IF Truthy(name) THEN NormalizeName(name) ELSE Omitted IN
       IF Truthy(name) /\ RoleByName(db, normalizedName) \ {roleId} # {}
       THEN Fail(db, "Role name already exists")
       ELSE IF permissionIds # Omitted /\ Len(permissionIds) > 0
               /\ InvalidPermissionIds(db, permissionIds)
       THEN Fail(db, "One or more permission IDs are invalid")
       ELSE Ok([db EXCEPT
                  !.roles = [@ EXCEPT ![roleId] =
                     [name |-> IF Truthy(normalizedName) THEN normalizedName ELSE @.name,
                      description |-> IF description # Undefined THEN description
                                      ELSE @.description]],
                  !.rolePermissions =
                     IF permissionIds = Omitted THEN @
                     ELSE @ \cup RolePermissionRows(roleId, permissionIds)])

\* permissionIds is a list or Omitted
updateRole(db, user, roleId, name, description, permissionIds) ==
  IF ~HasRole(user, {"SUPER_ADMIN"}) THEN Fail(db, "Only SUPER_ADMIN can update roles")
  ELSE IF roleId \notin DOMAIN db.roles THEN Fail(db, "Role not found")
  ELSE LET normalizedName == IF Truthy(name) THEN NormalizeName(name) ELSE Omitted IN
       IF Truthy(name) /\ RoleByName(db, normalizedName) \ {roleId} # {}
       THEN Fail(db, "Role name already exists")
       ELSE IF permissionIds # Omitted /\ Len(permissionIds) > 0
               /\ InvalidPermissionIds(db, permissionIds)
       THEN Fail(db, "One or more permission IDs are invalid")
       ELSE Ok([db EXCEPT
                  !.roles = [@ EXCEPT ![roleId] =
                     [name |-> IF Truthy(normalizedName) THEN normalizedName ELSE @.name,
                      description |-> IF description # Undefined THEN description
                                      ELSE @.description]],
                  !.rolePermissions =
                     IF permissionIds = Omitted THEN @
                     ELSE {rp \in @ : rp.roleId # roleId}
                            \cup RolePermissionRows(roleId, permissionIds)])

deleteRole(db, user, roleId) ==
  IF ~HasRole(user, {"SUPER_ADMIN"}) THEN Fail(db, "Only SUPER_ADMIN can delete roles")
  ELSE IF roleId \notin DOMAIN db.roles THEN Fail(db, "Role not found")
  ELSE IF \E a \in DOMAIN db.admins : db.admins[a].roleId = roleId
  THEN Fail(db, "Cannot delete role assigned to admins")
  ELSE Ok([db EXCEPT !.rolePermissions = {rp \in @ : rp.roleId # roleId},
                     !.roles = Drop(@, roleId)])

\* deleteRole up to prisma.rolePermission.deleteMany: the guard and the lookup
\* of the role with its admins
deleteRoleFind(db, user, roleId) ==
  IF ~HasRole(user, {"SUPER_ADMIN"}) THEN Fail(db, "Only SUPER_ADMIN can delete roles")
  ELSE IF roleId \notin DOMAIN db.roles THEN Fail(db, "Role not found")
  ELSE IF \E a \in DOMAIN db.admins : db.admins[a].roleId = roleId
  THEN Fail(db, "Cannot delete role assigned to admins")
  ELSE Ok(db)

\* prisma.rolePermission.deleteMany({ where: { roleId } })
RolePermissionDeleteMany(db, roleId) ==
  Ok([db EXCEPT !.rolePermissions = {rp \in @ : rp.roleId # roleId}])

\* variant: a Role row goes whatever refers to it
RoleDeleteUnchecked(db, roleId) ==
  IF roleId \notin DOMAIN db.roles THEN Fail(db, P2025)
  ELSE Ok([db EXCEPT !.roles = Drop(@, roleId)])

\* prisma.role.delete: the row must exist (P2025); the foreign keys of Admin
\* and RolePermission are ON DELETE RESTRICT (P2003)
RoleDelete(db, roleId) ==
  IF roleId \notin DOMAIN db.roles THEN Fail(db, P2025)
  ELSE IF \/ \E a \in DOMAIN db.admins : db.admins[a].roleId = roleId
          \/ \E rp \in db.rolePermissions : rp.roleId = roleId
  THEN Fail(db, P2003)
  ELSE Ok([db EXCEPT !.roles = Drop(@, roleId)])

\* variant: createMany without skipDuplicates, a row already there is a unique violation
assignPermissionsToRoleStrict(db, user, roleId, permissionIds) ==
  IF ~HasRole(user, {"SUPER_ADMIN"}) THEN Fail(db, "Only SUPER_ADMIN can assign permissions")
  ELSE IF roleId \notin DOMAIN db.roles THEN Fail(db, "Role not found")
  ELSE IF InvalidPermissionIds(db, permissionIds)
  THEN Fail(db, "One or more permission IDs are invalid")
  ELSE IF RolePermissionRows(roleId, permissionIds) \cap db.rolePermissions # {}
  THEN Fail(db, P2002)
  ELSE Ok([db EXCEPT !.rolePermissions = @ \cup RolePermissionRows(roleId, permissionIds)])

assignPermissionsToRole(db, user, roleId, permissionIds) ==
  IF ~HasRole(user, {"SUPER_ADMIN"}) THEN Fail(db, "Only SUPER_ADMIN can assign permissions")
  ELSE IF roleId \notin DOMAIN db.roles THEN Fail(db, "Role not found")
  ELSE IF InvalidPermissionIds(db, permissionIds)
  THEN Fail(db, "One or more permission IDs are invalid")
  ELSE Ok([db EXCEPT !.rolePermissions = @ \cup RolePermissionRows(roleId, permissionIds)])

\* ------------------------------------------------------------------ admin resolvers
\* prisma.admin.create: unique email, unique phoneNo (P2002), foreign key to Role;
\* the service reports P2002 as "Email already exists", anything else as
\* "Failed to create admin"
createAdminService(db, newId, name, email, phoneNo, roleId) ==
  IF \E a \in DOMAIN db.admins :
       db.admins[a].email = email \/ db.admins[a].phoneNo = phoneNo
  THEN Fail(db, "Email already exists")
  ELSE IF roleId \notin DOMAIN db.roles THEN Fail(db, "Failed to create admin")
  ELSE Ok([db EXCEPT !.admins =
             Put(@, newId, [name |-> name, email |-> email, phoneNo |-> phoneNo,
                            roleId |-> roleId])])

createAdmin(db, user, newId, name, email, phoneNo, roleId) ==
  IF ~HasRole(user, {"SUPER_ADMIN"}) THEN Fail(db, "Only SUPER_ADMIN can create admins")
  ELSE createAdminService(db, newId, name, email, phoneNo, roleId)

\* an optional string argument in a condition: not supplied or empty is falsy
Given(v) == v # Undefined /\ v # ""

\* name, email, roleId: a value, or Undefined when not supplied
updateAdmin(db, user, adminId, name, email, roleId) ==
  IF ~HasRole(user, {"SUPER_ADMIN"}) THEN Fail(db, "Only SUPER_ADMIN can update admins")
  ELSE IF adminId \notin DOMAIN db.admins THEN Fail(db, "Admin not found")
  ELSE IF db.roles[db.admins[adminId].roleId].name = SUPER_ADMIN
  THEN Fail(db, "Cannot update SUPER_ADMIN")
  ELSE IF Given(email)
          /\ \E o \in DOMAIN db.admins \ {adminId} : db.admins[o].email = email
  THEN Fail(db, "Email already in use")
  ELSE IF Given(roleId) /\ roleId \notin DOMAIN db.roles THEN Fail(db, "Invalid role")
  ELSE Ok([db EXCEPT !.admins = [@ EXCEPT ![adminId] =
             [name |-> IF Given(name) THEN name ELSE @.name,
              email |-> IF Given(email) THEN email ELSE @.email,
              phoneNo |-> @.phoneNo,
              roleId |-> IF Given(roleId) THEN roleId ELSE @.roleId]]])

\* logoutAdmin: any token with an id is accepted
logoutAdmin(db, user) ==
  IF user = NoUser \/ user.id = Null THEN Fail(db, "Unauthorized") ELSE Ok(db)

\* Query.getAdmins: the guard throws its message, the lookup changes nothing
getAdmins(db, user) ==
  IF ~HasRole(user, {"SUPER_ADMIN"}) THEN Fail(db, "Only SUPER_ADMIN can view admins")
  ELSE Ok(db)

\* Query.getAdmins in the revision that logs: the guard throws inside a try
\* whose catch throws "Failed to fetch admins" in place of whatever was thrown
getAdminsCaught(db, user) ==
  IF getAdmins(db, user).err # OK THEN Fail(db, "Failed to fetch admins")
  ELSE getAdmins(db, user)

\* updateAdmin up to prisma.admin.update: the guard and the lookups
updateAdminFind(db, user, adminId, email, roleId) ==
  IF ~HasRole(user, {"SUPER_ADMIN"}) THEN Fail(db, "Only SUPER_ADMIN can update admins")
  ELSE IF adminId \notin DOMAIN db.admins THEN Fail(db, "Admin not found")
  ELSE IF db.roles[db.admins[adminId].roleId].name = SUPER_ADMIN
  THEN Fail(db, "Cannot update SUPER_ADMIN")
  ELSE IF Given(email)
          /\ \E o \in DOMAIN db.admins \ {adminId} : db.admins[o].email = email
  THEN Fail(db, "Email already in use")
  ELSE IF Given(roleId) /\ roleId \notin DOMAIN db.roles THEN Fail(db, "Invalid role")
  ELSE Ok(db)

\* prisma.admin.update: the row must exist (P2025), email is unique (P2002),
\* roleId is a foreign key to Role (P2003)
AdminUpdate(db, adminId, name, email, roleId) ==
  IF adminId \notin DOMAIN db.admins THEN Fail(db, P2025)
  ELSE IF Given(email)
          /\ \E o \in DOMAIN db.admins \ {adminId} : db.admins[o].email = email
  THEN Fail(db, P2002)
  ELSE IF Given(roleId) /\ roleId \notin DOMAIN db.roles THEN Fail(db, P2003)
  ELSE Ok([db EXCEPT !.admins = [@ EXCEPT ![adminId] =
             [name |-> IF Given(name) THEN name ELSE @.name,
              email |-> IF Given(email) THEN email ELSE @.email,
              phoneNo |-> @.phoneNo,
              roleId |-> IF Given(roleId) THEN roleId ELSE @.roleId]]])

\* variant: without the SUPER_ADMIN protection
deleteAdminUnprotected(db, user, adminId) ==
  IF ~HasRole(user, {"SUPER_ADMIN"}) THEN Fail(db, "Only SUPER_ADMIN can delete admins")
  ELSE IF adminId \notin DOMAIN db.admins THEN Fail(db, "Admin not found")
  ELSE Ok([db EXCEPT !.admins = Drop(@, adminId)])

deleteAdmin(db, user, adminId) ==
  IF ~HasRole(user, {"SUPER_ADMIN"}) THEN Fail(db, "Only SUPER_ADMIN can delete admins")
  ELSE IF adminId \notin DOMAIN db.admins THEN Fail(db, "Admin not found")
  ELSE IF db.roles[db.admins[adminId].roleId].name = SUPER_ADMIN
  THEN Fail(db, "Cannot delete SUPER_ADMIN")
  ELSE Ok([db EXCEPT !.admins = Drop(@, adminId)])

\* ------------------------------------------------------------------ audit log and login
\* the audit log sink (MongoDB): working, or throwing at one of its two calls
Sinks == {"up", "connect throws", "insert throws"}
LogError == "MongoError"

\* connectMongo() and collection.insertOne(): TRUE when the call resolves
connectMongo(sink) == sink # "connect throws"
insertOne(sink) == sink # "insert throws"

\* variant: without the try/catch, a sink failure reaches the caller
logEventRethrowing(sink) ==
  [logged |-> connectMongo(sink) /\ insertOne(sink),
   threw |-> ~(connectMongo(sink) /\ insertOne(sink))]

\* logEvent: connect and insert inside a try whose catch only prints
logEvent(sink) ==
  [logged |-> connectMongo(sink) /\ insertOne(sink), threw |-> FALSE]

\* logAdminAuthEvent: the same, with an empty catch
logAdminAuthEvent(sink) ==
  [logged |-> connectMongo(sink) /\ insertOne(sink), threw |-> FALSE]

\* prisma.admin.create: unique email and phoneNo (P2002), foreign key to Role (P2003)
AdminCreate(db, newId, name, email, phoneNo, roleId) ==
  IF \E a \in DOMAIN db.admins :
       db.admins[a].email = email \/ db.admins[a].phoneNo = phoneNo
  THEN Fail(db, P2002)
  ELSE IF roleId \notin DOMAIN db.roles THEN Fail(db, P2003)
  ELSE Ok([db EXCEPT !.admins =
             Put(@, newId, [name |-> name, email |-> email, phoneNo |-> phoneNo,
                            roleId |-> roleId])])

\* createAdminService with its log calls: the create and the ADMIN_CREATED log
\* are in one try; the catch logs and reports P2002 as "Email already exists"
\* and any other error as "Failed to create admin"; a throw inside the catch
\* reaches the caller as it is
createAdminServiceLogging(db, sink, newId, name, email, phoneNo, roleId) ==
  LET created == AdminCreate(db, newId, name, email, phoneNo, roleId)
      Caught(error) ==
        IF logEvent(sink).threw THEN Fail(created.db, LogError)
        ELSE IF error = P2002 THEN Fail(created.db, "Email already exists")
        ELSE Fail(created.db, "Failed to create admin")
  IN IF created.err # OK THEN Caught(created.err)
     ELSE IF logEvent(sink).threw THEN Caught(LogError)
     ELSE created

\* prisma.astrologer.create: unique email (P2002), approvalStatus at its default
AstrologerCreate(db, newId, email) ==
  IF \E a \in DOMAIN db.astrologers : db.astrologers[a].email = email
  THEN Fail(db, P2002)
  ELSE Ok([db EXCEPT !.astrologers =
             Put(@, newId, [email |-> email, approvalStatus |-> "PENDING"])])

\* addAstrologerService with its log calls, built like createAdminService
addAstrologerServiceLogging(db, sink, newId, email) ==
  LET created == AstrologerCreate(db, newId, email)
      Caught(error) ==
        IF logEvent(sink).threw THEN Fail(created.db, LogError)
        ELSE IF error = P2002 THEN Fail(created.db, "Astrologer with this email already exists")
        ELSE Fail(created.db, "Failed to add astrologer")
  IN IF created.err # OK THEN Caught(created.err)
     ELSE IF logEvent(sink).threw THEN Caught(LogError)
     ELSE created

\* the role claim a role name is signed as
RoleClaim(name) ==
  IF name = SUPER_ADMIN THEN "SUPER_ADMIN"
  ELSE IF name = ADMIN THEN "ADMIN"
  ELSE IF name = MANAGER THEN "MANAGER"
  ELSE "OTHER"

\* generateAccessToken(user): jwt.sign({ id: user.id }), whatever else user holds
generateAccessToken(user) == [id |-> user.id]

\* verifyAccessToken, as the request context does it: the payload of the
\* token is context.user; a claim the payload lacks reads as undefined
verifyAccessToken(token) ==
  [id |-> token.id, role |-> IF "role" \in DOMAIN token THEN token.role ELSE Null]

NoToken == [id |-> Null]

\* adminLoginService: the admin by email, bcrypt.compare (valid), the tokens,
\* a log call before each throw and after success; the catch rethrows the
\* message it caught.  Every Admin row has isActive at its default, true: no
\* operation writes it.  The refresh token column is not part of the store here.
adminLoginService(db, sink, email, valid) ==
  LET found == {a \in DOMAIN db.admins : db.admins[a].email = email} IN
  IF found = {}
  THEN IF logAdminAuthEvent(sink).threw THEN [db |-> db, err |-> LogError, token |-> NoToken]
       ELSE [db |-> db, err |-> "Admin not found or inactive", token |-> NoToken]
  ELSE LET id == CHOOSE a \in found : TRUE
           admin == db.admins[id] IN
       IF ~valid
       THEN IF logAdminAuthEvent(sink).threw
            THEN [db |-> db, err |-> LogError, token |-> NoToken]
            ELSE [db |-> db, err |-> "Invalid credentials", token |-> NoToken]
       ELSE LET accessToken == generateAccessToken(
                   [id |-> id, email |-> admin.email,
                    role |-> RoleClaim(db.roles[admin.roleId].name)]) IN
            IF logAdminAuthEvent(sink).threw
            THEN [db |-> db, err |-> LogError, token |-> NoToken]
            ELSE [db |-> db, err |-> OK, token |-> accessToken]

\* ------------------------------------------------------------------ user resolvers
\* data: UpdateUserInput, here with its mobile and isActive fields, each
\* present or not.  The resolver map defines updateUser twice; the later
\* definition is the one in effect, and it does not look for the mobile first:
\* the unique index on mobile rejects the update.
updateUser(db, user, userId, data) ==
  IF ~HasRole(user, {"ADMIN"}) THEN Fail(db, "Admin only")
  ELSE IF userId \notin DOMAIN db.users \/ db.users[userId].isDeleted
  THEN Fail(db, "User not found")
  ELSE IF "mobile" \in DOMAIN data
          /\ \E o \in DOMAIN db.users \ {userId} : db.users[o].mobile = data.mobile
  THEN Fail(db, P2002)
  ELSE Ok([db EXCEPT !.users = [@ EXCEPT ![userId] =
             [mobile |-> IF "mobile" \in DOMAIN data THEN data.mobile ELSE @.mobile,
              isActive |-> IF "isActive" \in DOMAIN data THEN data.isActive ELSE @.isActive,
              isDeleted |-> @.isDeleted]]])

\* variant: the row is removed
deleteUserPurging(db, user, userId) ==
  IF ~HasRole(user, {"ADMIN"}) THEN Fail(db, "Admin only")
  ELSE IF userId \notin DOMAIN db.users \/ db.users[userId].isDeleted
  THEN Fail(db, "User not found")
  ELSE Ok([db EXCEPT !.users = Drop(@, userId)])

deleteUser(db, user, userId) ==
  IF ~HasRole(user, {"ADMIN"}) THEN Fail(db, "Admin only")
  ELSE IF userId \notin DOMAIN db.users \/ db.users[userId].isDeleted
  THEN Fail(db, "User not found")
  ELSE Ok([db EXCEPT !.users = [@ EXCEPT ![userId] =
             [@ EXCEPT !.isDeleted = TRUE, !.isActive = FALSE]]])

\* updateUser and deleteUser up to prisma.user.update: the guard and the lookup
UserFind(db, user, userId) ==
  IF ~HasRole(user, {"ADMIN"}) THEN Fail(db, "Admin only")
  ELSE IF userId \notin DOMAIN db.users \/ db.users[userId].isDeleted
  THEN Fail(db, "User not found")
  ELSE Ok(db)

\* prisma.user.update: the row must exist (P2025), mobile is unique (P2002);
\* the fields of data are written, the others kept
UserUpdate(db, userId, data) ==
  IF userId \notin DOMAIN db.users THEN Fail(db, P2025)
  ELSE IF "mobile" \in DOMAIN data
          /\ \E o \in DOMAIN db.users \ {userId} : db.users[o].mobile = data.mobile
  THEN Fail(db, P2002)
  ELSE Ok([db EXCEPT !.users = [@ EXCEPT ![userId] =
             [mobile |-> IF "mobile" \in DOMAIN data THEN data.mobile ELSE @.mobile,
              isActive |-> IF "isActive" \in DOMAIN data THEN data.isActive ELSE @.isActive,
              isDeleted |-> IF "isDeleted" \in DOMAIN data THEN data.isDeleted
                            ELSE @.isDeleted]]])

\* ------------------------------------------------------------------ serving a request
\* the tables become those of db
Store(db) ==
  /\ astrologers' = db.astrologers
  /\ addresses' = db.addresses
  /\ experiences' = db.experiences
  /\ interviews' = db.interviews
  /\ documents' = db.documents
  /\ rejectionHistory' = db.rejectionHistory
  /\ permissions' = db.permissions
  /\ roles' = db.roles
  /\ rolePermissions' = db.rolePermissions
  /\ admins' = db.admins
  /\ users' = db.users

\* one request at a time: the resolver's outcome becomes the store and its
\* result or error is the reply
Respond(op, user, out) ==
  /\ reply = Idle
  /\ Store(out.db)
  /\ reply' = [op |-> op, role |-> user.role, err |-> out.err]
  /\ UNCHANGED calls

\* the reply goes out to the caller
SendReply ==
  /\ reply # Idle
  /\ reply' = Idle
  /\ UNCHANGED <<astrologers, addresses, experiences, interviews, documents,
                 rejectionHistory, permissions, roles, rolePermissions, admins, users,
                 calls>>

AddAstrologer ==
  \E user \in Users, id \in AstroIds \ DOMAIN astrologers, e \in AstroEmails :
    Respond("addAstrologer", user, addAstrologer(DB, user, id, e))

UpdateAstrologer ==
  \E user \in Users, a \in AstroIds, e \in AstroEmails \cup {Null} :
    Respond("updateAstrologer", user, updateAstrologer(DB, user, a, [email |-> e]))

DeleteAstrologer ==
  \E user \in Users, a \in AstroIds :
    Respond("deleteAstrologer", user, deleteAstrologer(DB, user, a))

VerifyDocument ==
  \E user \in Users, d \in DocIds, st \in DocumentStatus, rm \in Remarks :
    Respond("verifyDocument", user, verifyDocument(DB, user, d, st, rm))

ScheduleInterview ==
  \E user \in Users, a \in AstroIds, r \in Rounds :
    Respond("scheduleInterview", user, scheduleInterview(DB, user, a, r))

RejectAstrologer ==
  \E user \in Users, a \in AstroIds, rj \in Rejections :
    /\ Len(rejectionHistory) < MaxHistory
    /\ Respond("rejectAstrologer", user, rejectAstrologer(DB, user, a, rj[1], rj[2]))

ApproveAstrologer ==
  \E user \in Users, a \in AstroIds :
    Respond("approveAstrologer", user, approveAstrologer(DB, user, a))

\* ------------------------------------------------------------------ access control requests
CreatePermission ==
  \E user \in Users, id \in PermissionIds \ DOMAIN permissions, n \in PermissionNameInputs,
     d \in Descriptions :
    Respond("createPermission", user, createPermission(DB, user, id, n, d))

UpdatePermission ==
  \E user \in Users, id \in PermissionIds, n \in PermissionNameInputs \cup {Omitted},
     d \in Descriptions :
    Respond("updatePermission", user, updatePermission(DB, user, id, n, d))

DeletePermission ==
  \E user \in Users, id \in PermissionIds :
    Respond("deletePermission", user, deletePermission(DB, user, id))

CreateRole ==
  \E user \in Users, id \in RoleIds \ DOMAIN roles, n \in NameInputs, d \in Descriptions,
     ps \in PermissionIdLists :
    Respond("createRole", user, createRole(DB, user, id, n, d, ps))

UpdateRole ==
  \E user \in Users, id \in RoleIds, n \in NameInputs \cup {Omitted}, d \in Descriptions,
     ps \in PermissionIdLists \cup {Omitted} :
    Respond("updateRole", user, updateRole(DB, user, id, n, d, ps))

DeleteRole ==
  \E user \in Users, id \in RoleIds :
    Respond("deleteRole", user, deleteRole(DB, user, id))

AssignPermissionsToRole ==
  \E user \in Users, id \in RoleIds, ps \in PermissionIdLists :
    Respond("assignPermissionsToRole", user, assignPermissionsToRole(DB, user, id, ps))

CreateAdmin ==
  \E user \in Users, id \in AdminIds \ DOMAIN admins, n \in AdminNames, e \in AdminEmails,
     ph \in AdminPhones, r \in RoleIds :
    Respond("createAdmin", user, createAdmin(DB, user, id, n, e, ph, r))

UpdateAdmin ==
  \E user \in Users, id \in AdminIds, n \in AdminNames \cup {Undefined, ""},
     e \in AdminEmails \cup {Undefined}, r \in RoleIds \cup {Undefined} :
    Respond("updateAdmin", user, updateAdmin(DB, user, id, n, e, r))

DeleteAdmin ==
  \E user \in Users, id \in AdminIds :
    Respond("deleteAdmin", user, deleteAdmin(DB, user, id))

LogoutAdmin ==
  \E user \in Users : Respond("logoutAdmin", user, logoutAdmin(DB, user))

\* the resolver file exists in two revisions; either may be the one deployed
GetAdmins ==
  \E user \in Users :
    \E out \in {getAdmins(DB, user), getAdminsCaught(DB, user)} :
      Respond("getAdmins", user, out)

\* ------------------------------------------------------------------ requests that log
\* the reply of a request that writes to the audit log, with the state the
\* sink was in
RespondLogged(op, user, sink, out) ==
  /\ reply = Idle
  /\ Store(out.db)
  /\ reply' = [op |-> op, role |-> user.role, err |-> out.err, sink |-> sink]
  /\ UNCHANGED calls

LoginAdmin ==
  \E sink \in Sinks, e \in AdminEmails, valid \in BOOLEAN :
    RespondLogged("loginAdmin", NoUser, sink, adminLoginService(DB, sink, e, valid))

CreateAdminLogging ==
  \E user \in Users, sink \in Sinks, id \in AdminIds \ DOMAIN admins, n \in AdminNames,
     e \in AdminEmails, ph \in AdminPhones, r \in RoleIds :
    RespondLogged("createAdmin", user, sink,
      IF ~HasRole(user, {"SUPER_ADMIN"}) THEN Fail(DB, "Only SUPER_ADMIN can create admins")
      ELSE createAdminServiceLogging(DB, sink, id, n, e, ph, r))

AddAstrologerLogging ==
  \E user \in Users, sink \in Sinks, id \in AstroIds \ DOMAIN astrologers,
     e \in AstroEmails :
    RespondLogged("addAstrologer", user, sink,
      IF ~HasRole(user, {"SUPER_ADMIN", "MANAGER"}) THEN Fail(DB, "Not authorized")
      ELSE addAstrologerServiceLogging(DB, sink, id, e))

\* ------------------------------------------------------------------ user requests
UpdateUser ==
  \E user \in Users, u \in UserIds, data \in UpdateUserInputs :
    Respond("updateUser", user, updateUser(DB, user, u, data))

DeleteUser ==
  \E user \in Users, u \in UserIds :
    Respond("deleteUser", user, deleteUser(DB, user, u))

\* ------------------------------------------------------------------ concurrent requests
\* Requests are served concurrently: a resolver runs up to its next await, and
\* other resolvers run in between.  A call that has made its first write waits
\* in a slot for its second.
FreeSlots == {s \in Slots : calls[s] = NoCall}

\* a new call takes the lowest free slot
NextSlot == {s \in FreeSlots : \A t \in FreeSlots : s <= t}

\* the first part of a two-write resolver: it replies at once when it throws,
\* and is suspended in slot s otherwise
Suspend(s, op, user, out, call) ==
  /\ reply = Idle
  /\ Store(out.db)
  /\ IF out.err # OK
     THEN /\ reply' = [op |-> op, role |-> user.role, err |-> out.err]
          /\ UNCHANGED calls
     ELSE /\ calls' = [calls EXCEPT ![s] = call]
          /\ UNCHANGED reply

\* the second part: the call leaves its slot and replies
Resume(s, out) ==
  /\ reply = Idle
  /\ Store(out.db)
  /\ calls' = [calls EXCEPT ![s] = NoCall]
  /\ reply' = [op |-> calls[s].op, role |-> calls[s].user.role, err |-> out.err]

ScheduleInterviewUpdate ==
  \E s \in NextSlot, user \in Users, a \in AstroIds, r \in Rounds :
    Suspend(s, "scheduleInterview", user, scheduleInterviewUpdate(DB, user, a),
            [op |-> "scheduleInterview", user |-> user, astrologerId |-> a,
             roundNumber |-> r])

ScheduleInterviewCreate ==
  \E s \in Slots :
    /\ calls[s].op = "scheduleInterview"
    /\ Resume(s, InterviewCreate(DB, calls[s].astrologerId, calls[s].roundNumber))

RejectAstrologerCreate ==
  \E s \in NextSlot, user \in Users, a \in AstroIds, rj \in Rejections :
    /\ Len(rejectionHistory) < MaxHistory
    /\ Suspend(s, "rejectAstrologer", user,
               rejectAstrologerCreate(DB, user, a, rj[1], rj[2]),
               [op |-> "rejectAstrologer", user |-> user, astrologerId |-> a,
                stage |-> rj[1], reason |-> rj[2]])

RejectAstrologerUpdate ==
  \E s \in Slots :
    /\ calls[s].op = "rejectAstrologer"
    /\ Resume(s, AstrologerSetStatus(DB, calls[s].astrologerId, "REJECTED"))

\* createPermission and updatePermission look the name up, await, and write
InFlight(op) == {s \in Slots : calls[s].op = op}

CreatePermissionFind ==
  \E s \in NextSlot, user \in Users, n \in PermissionNameInputs, d \in Descriptions :
    /\ Cardinality(DOMAIN permissions) + Cardinality(InFlight("createPermission"))
         < Cardinality(PermissionIds)
    /\ Suspend(s, "createPermission", user, createPermissionFind(DB, user, n),
               [op |-> "createPermission", user |-> user, name |-> n, description |-> d])

CreatePermissionCreate ==
  \E s \in InFlight("createPermission") :
    Resume(s, PermissionCreate(DB, NormalizeName(calls[s].name), calls[s].description))

UpdatePermissionFind ==
  \E s \in NextSlot, user \in Users, id \in PermissionIds,
     n \in PermissionNameInputs \cup {Omitted}, d \in Descriptions :
    Suspend(s, "updatePermission", user, updatePermissionFind(DB, user, id, n),
            [op |-> "updatePermission", user |-> user, permissionId |-> id, name |-> n,
             description |-> d])

UpdatePermissionUpdate ==
  \E s \in InFlight("updatePermission") :
    Resume(s, PermissionUpdate(DB, calls[s].permissionId, calls[s].name,
                               calls[s].description))

\* deleteRole looks the role up, deletes its RolePermission rows, then the role
DeleteRoleFind ==
  \E s \in NextSlot, user \in Users, id \in RoleIds :
    Suspend(s, "deleteRole", user, deleteRoleFind(DB, user, id),
            [op |-> "deleteRole", user |-> user, roleId |-> id, awaiting |-> "deleteMany"])

DeleteRoleDeleteMany ==
  \E s \in InFlight("deleteRole") :
    /\ calls[s].awaiting = "deleteMany"
    /\ Suspend(s, "deleteRole", calls[s].user, RolePermissionDeleteMany(DB, calls[s].roleId),
               [calls[s] EXCEPT !.awaiting = "delete"])

DeleteRoleDelete ==
  \E s \in InFlight("deleteRole") :
    /\ calls[s].awaiting = "delete"
    /\ Resume(s, RoleDelete(DB, calls[s].roleId))

\* updateAdmin looks the admin, the email and the role up, then writes
UpdateAdminFind ==
  \E s \in NextSlot, user \in Users, id \in AdminIds, n \in AdminNames \cup {Undefined},
     e \in AdminEmails \cup {Undefined}, r \in RoleIds \cup {Undefined} :
    Suspend(s, "updateAdmin", user, updateAdminFind(DB, user, id, e, r),
            [op |-> "updateAdmin", user |-> user, adminId |-> id, name |-> n, email |-> e,
             roleId |-> r])

UpdateAdminUpdate ==
  \E s \in InFlight("updateAdmin") :
    Resume(s, AdminUpdate(DB, calls[s].adminId, calls[s].name, calls[s].email,
                          calls[s].roleId))

\* updateUser and deleteUser look the user up, await, and write
UpdateUserFind ==
  \E s \in NextSlot, user \in Users, u \in UserIds, data \in UpdateUserInputs :
    Suspend(s, "updateUser", user, UserFind(DB, user, u),
            [op |-> "updateUser", user |-> user, userId |-> u, data |-> data])

UpdateUserUpdate ==
  \E s \in InFlight("updateUser") :
    Resume(s, UserUpdate(DB, calls[s].userId, calls[s].data))

DeleteUserFind ==
  \E s \in NextSlot, user \in Users, u \in UserIds :
    Suspend(s, "deleteUser", user, UserFind(DB, user, u),
            [op |-> "deleteUser", user |-> user, userId |-> u])

DeleteUserUpdate ==
  \E s \in InFlight("deleteUser") :
    Resume(s, UserUpdate(DB, calls[s].userId, [isDeleted |-> TRUE, isActive |-> FALSE]))

\* the process dies between the two writes of a call: the second never happens
\* and the caller gets no response
Crash ==
  \E s \in Slots :
    /\ calls[s] # NoCall
    /\ reply = Idle
    /\ calls' = [calls EXCEPT ![s] = NoCall]
    /\ reply' = [op |-> calls[s].op, role |-> calls[s].user.role, err |-> "NO_RESPONSE"]
    /\ UNCHANGED <<astrologers, addresses, experiences, interviews, documents,
                   rejectionHistory, permissions, roles, rolePermissions, admins, users>>

\* ------------------------------------------------------------------ other writers
\* The registration side of onboarding is not part of this service: it writes
\* an astrologer's profile rows and documents and opens document verification.
EnvSubmitProfile ==
  \E a \in DOMAIN astrologers :
    /\ addresses' = addresses \cup {[astrologerId |-> a]}
    /\ experiences' = experiences \cup {[astrologerId |-> a]}
    /\ reply = Idle
    /\ UNCHANGED <<calls, reply>>
    /\ UNCHANGED <<astrologers, interviews, documents, rejectionHistory, permissions,
                   roles, rolePermissions, admins, users>>

EnvUploadDocument ==
  \E a \in DOMAIN astrologers, t \in DocumentType :
    /\ Cardinality(DOMAIN documents) < MaxDocument
    /\ ~\E d \in DOMAIN documents :
          documents[d].astrologerId = a /\ documents[d].documentType = t
    /\ documents' = Put(documents, Cardinality(DOMAIN documents) + 1,
                        [astrologerId |-> a, documentType |-> t, status |-> "PENDING",
                         verifiedBy |-> Null, verifiedAt |-> FALSE, remarks |-> Null])
    /\ reply = Idle
    /\ UNCHANGED <<calls, reply>>
    /\ UNCHANGED <<astrologers, addresses, experiences, interviews, rejectionHistory,
                   permissions, roles, rolePermissions, admins, users>>

EnvDocumentVerification ==
  \E a \in DOMAIN astrologers :
    /\ astrologers[a].approvalStatus \in {"PENDING", "INTERVIEW"}
    /\ astrologers' = [astrologers EXCEPT ![a].approvalStatus = "DOCUMENT_VERIFICATION"]
    /\ reply = Idle
    /\ UNCHANGED <<calls, reply>>
    /\ UNCHANGED <<addresses, experiences, interviews, documents, rejectionHistory,
                   permissions, roles, rolePermissions, admins, users>>

\* end customers sign up through the customer-facing service
EnvCreateUser ==
  \E u \in UserIds \ DOMAIN users, m \in Mobiles :
    /\ ~\E o \in DOMAIN users : users[o].mobile = m
    /\ users' = Put(users, u, [mobile |-> m, isActive |-> TRUE, isDeleted |-> FALSE])
    /\ reply = Idle
    /\ UNCHANGED <<calls, reply>>
    /\ UNCHANGED <<astrologers, addresses, experiences, interviews, documents,
                   rejectionHistory, permissions, roles, rolePermissions, admins>>

\* ------------------------------------------------------------------ specification
\* the approval workflow: astrologers, interviews, rejection history
Next ==
  \/ AddAstrologer
  \/ UpdateAstrologer
  \/ DeleteAstrologer
  \/ ScheduleInterview
  \/ RejectAstrologer
  \/ ApproveAstrologer
  \/ EnvDocumentVerification
  \/ SendReply

Spec == Init /\ [][Next]_vars

\* the approval workflow with its resolvers interleaved at their awaits
NextConc ==
  \/ AddAstrologer
  \/ ApproveAstrologer
  \/ ScheduleInterviewUpdate
  \/ ScheduleInterviewCreate
  \/ RejectAstrologerCreate
  \/ RejectAstrologerUpdate
  \/ Crash
  \/ SendReply

SpecConc == Init /\ [][NextConc]_vars

\* astrologers and users under every token
NextGuard ==
  \/ AddAstrologer
  \/ DeleteAstrologer
  \/ ApproveAstrologer
  \/ EnvCreateUser
  \/ DeleteUser
  \/ SendReply

SpecGuard == Init /\ [][NextGuard]_vars

\* astrologers with their profile rows and documents
NextDocs ==
  \/ AddAstrologer
  \/ DeleteAstrologer
  \/ ApproveAstrologer
  \/ VerifyDocument
  \/ EnvSubmitProfile
  \/ EnvUploadDocument
  \/ SendReply

SpecDocs == Init /\ [][NextDocs]_vars

\* the admin directory and the roles admins are bound to
NextAdmin ==
  \/ CreateRole
  \/ DeleteRole
  \/ CreateAdmin
  \/ UpdateAdmin
  \/ DeleteAdmin
  \/ SendReply

SpecAdmin == Init /\ [][NextAdmin]_vars

\* permissions, roles and the join between them
NextRoles ==
  \/ CreatePermission
  \/ CreateRole
  \/ UpdateRole
  \/ AssignPermissionsToRole
  \/ SendReply

SpecRoles == Init /\ [][NextRoles]_vars

\* permissions, and the roles that hold them
NextPermissions ==
  \/ CreatePermission
  \/ UpdatePermission
  \/ DeletePermission
  \/ CreateRole
  \/ DeleteRole
  \/ SendReply

SpecPermissions == Init /\ [][NextPermissions]_vars

\* end customers
NextUsers ==
  \/ EnvCreateUser
  \/ UpdateUser
  \/ DeleteUser
  \/ SendReply

SpecUsers == Init /\ [][NextUsers]_vars

\* permission names written by calls interleaved at their awaits
NextNames ==
  \/ CreatePermissionFind
  \/ CreatePermissionCreate
  \/ UpdatePermissionFind
  \/ UpdatePermissionUpdate
  \/ SendReply

SpecNames == Init /\ [][NextNames]_vars

\* the store once the SUPER_ADMIN and ADMIN roles are set up
InitRoles ==
  /\ astrologers = EmptyFn
  /\ addresses = {}
  /\ experiences = {}
  /\ interviews = {}
  /\ documents = EmptyFn
  /\ rejectionHistory = <<>>
  /\ permissions = EmptyFn
  /\ roles = [r \in RoleIds |-> [name |-> IF r = "r1" THEN SUPER_ADMIN ELSE ADMIN,
                                  description |-> Null]]
  /\ rolePermissions = {}
  /\ admins = EmptyFn
  /\ users = EmptyFn
  /\ calls = [s \in Slots |-> NoCall]
  /\ reply = Idle

\* admins and their roles, written by calls interleaved at their awaits
NextBinding ==
  \/ CreateAdmin
  \/ UpdateAdminFind
  \/ UpdateAdminUpdate
  \/ DeleteRoleFind
  \/ DeleteRoleDeleteMany
  \/ DeleteRoleDelete
  \/ SendReply

SpecBinding == InitRoles /\ [][NextBinding]_vars

\* the admin directory: admins created, deleted and listed
NextDirectory ==
  \/ CreateAdmin
  \/ DeleteAdmin
  \/ GetAdmins
  \/ SendReply

SpecDirectory == InitRoles /\ [][NextDirectory]_vars

\* the operations that write to the audit log, under every state of the sink
NextAudit ==
  \/ LoginAdmin
  \/ CreateAdminLogging
  \/ AddAstrologerLogging
  \/ DeleteAdmin
  \/ SendReply

SpecAudit == InitRoles /\ [][NextAudit]_vars

\* the store once the roles and the two admins are set up: adm1 with the ADMIN
\* role and adm2 with the SUPER_ADMIN role, each holding the token of Users
\* that carries its id and its role name
InitDirectory ==
  /\ astrologers = EmptyFn
  /\ addresses = {}
  /\ experiences = {}
  /\ interviews = {}
  /\ documents = EmptyFn
  /\ rejectionHistory = <<>>
  /\ permissions = EmptyFn
  /\ roles = [r \in RoleIds |-> [name |-> IF r = "r1" THEN SUPER_ADMIN ELSE ADMIN,
                                  description |-> Null]]
  /\ rolePermissions = {}
  /\ admins = [a \in AdminIds |->
                 IF a = "adm1"
                 THEN [name |-> "Asha", email |-> "a@corp", phoneNo |-> "9990", roleId |-> "r2"]
                 ELSE [name |-> "Ravi", email |-> "b@corp", phoneNo |-> "9991", roleId |-> "r1"]]
  /\ users = EmptyFn
  /\ calls = [s \in Slots |-> NoCall]
  /\ reply = Idle

\* requests made with tokens issued before the directory changes
NextSessions ==
  \/ UpdateAdmin
  \/ DeleteAdmin
  \/ CreateAdmin
  \/ GetAdmins
  \/ LogoutAdmin
  \/ EnvCreateUser
  \/ DeleteUser
  \/ SendReply

SpecSessions == InitDirectory /\ [][NextSessions]_vars

\* role and admin management on a directory that holds a SUPER_ADMIN admin
NextProtected ==
  \/ CreateRole
  \/ UpdateRole
  \/ DeleteRole
  \/ AssignPermissionsToRole
  \/ CreateAdmin
  \/ UpdateAdmin
  \/ DeleteAdmin
  \/ SendReply

SpecProtected == InitDirectory /\ [][NextProtected]_vars

\* end customers, written by calls interleaved at their awaits
NextUsersConc ==
  \/ EnvCreateUser
  \/ UpdateUserFind
  \/ UpdateUserUpdate
  \/ DeleteUserFind
  \/ DeleteUserUpdate
  \/ SendReply

SpecUsersConc == Init /\ [][NextUsersConc]_vars

\* the store once the two roles exist and each holds permission p1
InitAssigned ==
  /\ astrologers = EmptyFn
  /\ addresses = {}
  /\ experiences = {}
  /\ interviews = {}
  /\ documents = EmptyFn
  /\ rejectionHistory = <<>>
  /\ permissions = [p \in {"p1"} |->
                      [name |-> NormalizeName(<<"v", "i", "e", "w">>), description |-> Null]]
  /\ roles = [r \in RoleIds |-> [name |-> IF r = "r1" THEN SUPER_ADMIN ELSE ADMIN,
                                  description |-> Null]]
  /\ rolePermissions = {[roleId |-> r, permissionId |-> "p1"] : r \in RoleIds}
  /\ admins = EmptyFn
  /\ users = EmptyFn
  /\ calls = [s \in Slots |-> NoCall]
  /\ reply = Idle

\* deleteRole interleaved with the calls that bind admins to roles, on roles
\* that hold permissions
NextRoleDelete ==
  \/ CreateAdmin
  \/ DeleteAdmin
  \/ DeleteRoleFind
  \/ DeleteRoleDeleteMany
  \/ DeleteRoleDelete
  \/ SendReply

SpecRoleDelete == InitAssigned /\ [][NextRoleDelete]_vars

\* rejections interleaved at their awaits with the calls that write astrologers
NextRejection ==
  \/ AddAstrologer
  \/ UpdateAstrologer
  \/ DeleteAstrologer
  \/ ApproveAstrologer
  \/ RejectAstrologerCreate
  \/ RejectAstrologerUpdate
  \/ Crash
  \/ SendReply

SpecRejection == Init /\ [][NextRejection]_vars

\* onboarding of fresh astrologers next to ones already interviewed or rejected
NextOnboarding ==
  \/ AddAstrologer
  \/ ScheduleInterview
  \/ RejectAstrologer
  \/ SendReply

SpecOnboarding == Init /\ [][NextOnboarding]_vars

\* document verification on uploaded documents of onboarded astrologers
NextVerification ==
  \/ AddAstrologer
  \/ VerifyDocument
  \/ EnvSubmitProfile
  \/ EnvUploadDocument
  \/ SendReply

SpecVerification == Init /\ [][NextVerification]_vars

\* ================================================================== properties
Terminal == {"APPROVED", "REJECTED"}
Reasons == {rj[2] : rj \in Rejections}

\* the tokens whose role claim is not in the allowed set, the missing token included
Unauthorized(allowed) == {u \in Users : u.role \notin allowed}
\* the tokens whose role claim is in the set
Authorized(allowed) == {u \in Users : u.role \in allowed}
\* every caller id with the role claim
Actors(role) == {[id |-> c, role |-> role] : c \in CallerIds}

GuardMessages ==
  {"Admin only", "Not authorized",
   "Only SUPER_ADMIN can create permissions", "Only SUPER_ADMIN can update permissions",
   "Only SUPER_ADMIN can delete permissions", "Only SUPER_ADMIN can create roles",
   "Only SUPER_ADMIN can update roles", "Only SUPER_ADMIN can delete roles",
   "Only SUPER_ADMIN can assign permissions", "Only SUPER_ADMIN can create admins",
   "Only SUPER_ADMIN can update admins", "Only SUPER_ADMIN can delete admins"}

\* the call was refused by its guard and wrote nothing
Refused(out) == out.err \in GuardMessages /\ out.db = DB

RowsOf(a) == {i \in DOMAIN rejectionHistory : rejectionHistory[i].astrologerId = a}
InterviewsOf(a) == {i \in interviews : i.astrologerId = a}
StatusOf(a) == astrologers[a].approvalStatus

\* ------------------------------------------------------------------ C1
\* C1: every guarded mutation fails closed.  Called with no user, or with a
\* role claim outside the set the operation allows (SUPER_ADMIN for permission,
\* role and admin management; SUPER_ADMIN or MANAGER for add/update/delete
\* astrologer; ADMIN for updateUser, deleteUser, verifyDocument,
\* scheduleInterview, rejectAstrologer and approveAstrologer), the call fails
\* with the guard's error and leaves every table as it was, whatever its
\* arguments.
C1_GuardsFailClosed ==
  /\ \A u \in Unauthorized({"SUPER_ADMIN"}) :
       /\ \A id \in PermissionIds, n \in NameInputs \cup {Omitted}, d \in Descriptions :
            /\ Refused(createPermission(DB, u, id, n, d))
            /\ Refused(updatePermission(DB, u, id, n, d))
       /\ \A id \in PermissionIds : Refused(deletePermission(DB, u, id))
       /\ \A id \in RoleIds, n \in NameInputs \cup {Omitted}, d \in Descriptions,
             ps \in PermissionIdLists \cup {Omitted} :
            /\ Refused(createRole(DB, u, id, n, d, ps))
            /\ Refused(updateRole(DB, u, id, n, d, ps))
       /\ \A id \in RoleIds, ps \in PermissionIdLists :
            Refused(assignPermissionsToRole(DB, u, id, ps))
       /\ \A id \in RoleIds : Refused(deleteRole(DB, u, id))
       /\ \A id \in AdminIds, n \in AdminNames \cup {Undefined, ""},
             e \in AdminEmails \cup {Undefined}, r \in RoleIds \cup {Undefined} :
            /\ Refused(updateAdmin(DB, u, id, n, e, r))
            /\ \A ph \in AdminPhones : Refused(createAdmin(DB, u, id, n, e, ph, r))
       /\ \A id \in AdminIds : Refused(deleteAdmin(DB, u, id))
  /\ \A u \in Unauthorized({"SUPER_ADMIN", "MANAGER"}) :
       \A a \in AstroIds :
         /\ \A e \in AstroEmails \cup {Null} :
              /\ Refused(addAstrologer(DB, u, a, e))
              /\ Refused(updateAstrologer(DB, u, a, [email |-> e]))
         /\ Refused(deleteAstrologer(DB, u, a))
  /\ \A u \in Unauthorized({"ADMIN"}) :
       /\ \A id \in UserIds :
            /\ \A data \in UpdateUserInputs : Refused(updateUser(DB, u, id, data))
            /\ Refused(deleteUser(DB, u, id))
       /\ \A d \in DocIds, st \in DocumentStatus, rm \in Remarks :
            Refused(verifyDocument(DB, u, d, st, rm))
       /\ \A a \in AstroIds :
            /\ \A r \in Rounds : Refused(scheduleInterview(DB, u, a, r))
            /\ \A stage \in RejectionStage, reason \in Reasons :
                 Refused(rejectAstrologer(DB, u, a, stage, reason))
            /\ Refused(approveAstrologer(DB, u, a))

\* a SUPER_ADMIN token was refused by an ADMIN-only resolver, astrologers and
\* users being there to change
C1_Witness ==
  /\ reply.op = "approveAstrologer"
  /\ reply.role = "SUPER_ADMIN"
  /\ reply.err = "Admin only"
  /\ \E a \in DOMAIN astrologers : StatusOf(a) = "PENDING"
  /\ DOMAIN users # {}

\* ------------------------------------------------------------------ C2
\* C2: a scheduleInterview call that fails is all-or-nothing: it leaves no
\* Interview row and the astrologer's approvalStatus as it was; and there is at
\* most one Interview row per (astrologerId, roundNumber).
C2_ScheduleAllOrNothing ==
  [][/\ (reply'.op = "scheduleInterview" /\ reply'.err # OK)
          => (astrologers' = astrologers /\ interviews' = interviews)
     /\ \A i, j \in interviews' :
          (i.astrologerId = j.astrologerId /\ i.roundNumber = j.roundNumber) => i = j]_vars

WithDocument(db, a) ==
  [db EXCEPT !.documents =
     1 :> [astrologerId |-> a, documentType |-> "ID_PROOF", status |-> "PENDING",
           verifiedBy |-> Null, verifiedAt |-> FALSE, remarks |-> Null]]

C4_ScheduleFromEveryStatus ==
  \A u \in Authorized({"ADMIN"}), a \in DOMAIN astrologers, r \in Rounds :
    (\A i \in InterviewsOf(a) : i.roundNumber # r) =>
      scheduleInterview(DB, u, a, r) =
        Ok([DB EXCEPT !.astrologers[a].approvalStatus = "INTERVIEW",
                      !.interviews = @ \cup {[astrologerId |-> a, roundNumber |-> r,
                                              status |-> "SCHEDULED"]}])

\* a second round was scheduled for an astrologer that had been rejected
C4_Witness ==
  /\ reply.op = "scheduleInterview"
  /\ reply.err = OK
  /\ \E a \in DOMAIN astrologers :
       StatusOf(a) = "INTERVIEW" /\ RowsOf(a) # {} /\ Cardinality(InterviewsOf(a)) = 2

\* ------------------------------------------------------------------ C5
\* C5: rejectAstrologer by an ADMIN on an existing astrologer sets its status
\* to REJECTED and appends exactly one RejectionHistory row carrying the given
\* stage and reason and the actor's id as rejectedBy; the rows already there
\* and everything else stay as they were.
C5_RejectAppendsOneRow ==
  \A u \in Actors("ADMIN"), a \in DOMAIN astrologers, stage \in RejectionStage,
     reason \in Reasons :
    rejectAstrologer(DB, u, a, stage, reason) =
      Ok([DB EXCEPT !.astrologers[a].approvalStatus = "REJECTED",
                    !.rejectionHistory =
                       Append(@, [astrologerId |-> a, stage |-> stage, reason |-> reason,
                                  rejectedBy |-> u.id])])

\* a second rejection was recorded after the first
C5_Witness ==
  /\ reply.op = "rejectAstrologer"
  /\ reply.err = OK
  /\ Len(rejectionHistory) >= 2
  /\ LET row == rejectionHistory[Len(rejectionHistory)] IN
       row.rejectedBy = "adm1" /\ StatusOf(row.astrologerId) = "REJECTED"

\* ------------------------------------------------------------------ C6
\* C6: RejectionHistory is append-only: every step leaves the rows there were,
\* unchanged and in place, whatever request is served.
C6_HistoryAppendOnly ==
  [][/\ Len(rejectionHistory) <= Len(rejectionHistory')
     /\ SubSeq(rejectionHistory', 1, Len(rejectionHistory)) = rejectionHistory]_vars

\* deleteAstrologer was called on an astrologer whose only child rows are its
\* rejections
C6_Witness ==
  /\ reply.op = "deleteAstrologer"
  /\ reply.err = P2003
  /\ interviews = {}
  /\ Len(rejectionHistory) > 0

\* ------------------------------------------------------------------ C7
\* C7: the two writes of scheduleInterview and of rejectAstrologer are atomic:
\* in no state has a rejectAstrologer call written its RejectionHistory row
\* but not its status, or a scheduleInterview call its status but not its
\* Interview row.
C7_WritesAreAtomic ==
  \A s \in Slots :
    LET c == calls[s] IN
    /\ c.op = "rejectAstrologer" =>
         ~(/\ \E i \in RowsOf(c.astrologerId) :
                rejectionHistory[i] = [astrologerId |-> c.astrologerId, stage |-> c.stage,
                                       reason |-> c.reason, rejectedBy |-> c.user.id]
           /\ StatusOf(c.astrologerId) # "REJECTED")
    /\ c.op = "scheduleInterview" =>
         ~(/\ StatusOf(c.astrologerId) = "INTERVIEW"
           /\ \A i \in InterviewsOf(c.astrologerId) : i.roundNumber # c.roundNumber)

\* ------------------------------------------------------------------ C8
\* C8: approveAstrologer by an ADMIN on an existing astrologer succeeds from
\* every approvalStatus, sets the status to APPROVED and changes nothing else;
\* approving again leaves the store as it is.
C8_ApproveFromEveryStatus ==
  \A u \in Authorized({"ADMIN"}), a \in DOMAIN astrologers :
    LET out == approveAstrologer(DB, u, a) IN
    /\ out = Ok([DB EXCEPT !.astrologers[a].approvalStatus = "APPROVED"])
    /\ approveAstrologer(out.db, u, a) = Ok(out.db)

\* a rejected astrologer was approved
C8_Witness ==
  /\ reply.op = "approveAstrologer"
  /\ reply.err = OK
  /\ interviews = {}
  /\ \E a \in DOMAIN astrologers : StatusOf(a) = "APPROVED" /\ RowsOf(a) # {}

\* ------------------------------------------------------------------ C9
\* C9: deleteAstrologer by a SUPER_ADMIN or MANAGER on an astrologer that owns
\* child rows succeeds and removes the astrologer with its child rows; every
\* child row refers to an astrologer that exists.
C9_DeleteRemovesChildRows ==
  /\ \A u \in Authorized({"SUPER_ADMIN", "MANAGER"}), a \in DOMAIN astrologers :
       HasChildRows(DB, a) =>
         LET out == deleteAstrologer(DB, u, a) IN
         /\ out.err = OK
         /\ a \notin DOMAIN out.db.astrologers
         /\ ~HasChildRows(out.db, a)
  /\ \A i \in interviews : i.astrologerId \in DOMAIN astrologers
  /\ \A i \in DOMAIN rejectionHistory :
       rejectionHistory[i].astrologerId \in DOMAIN astrologers

\* ------------------------------------------------------------------ C10
RoleNameOf(adminId) == roles[admins[adminId].roleId].name

\* C10: updateAdmin and deleteAdmin on an admin whose role is named SUPER_ADMIN
\* fail and leave the store as it was.  On any other admin deleteAdmin removes
\* the record, and updateAdmin succeeds exactly when the supplied email is no
\* other admin's and the supplied role exists, and then changes only the
\* supplied fields among name, email and roleId of that record.
C10_SuperAdminProtected ==
  \A u \in Authorized({"SUPER_ADMIN"}), id \in DOMAIN admins :
    /\ LET out == deleteAdmin(DB, u, id) IN
         IF RoleNameOf(id) = SUPER_ADMIN
         THEN out.err # OK /\ out.db = DB
         ELSE out = Ok([DB EXCEPT !.admins = Drop(@, id)])
    /\ \A n \in AdminNames \cup {Undefined, ""}, e \in AdminEmails \cup {Undefined},
          r \in RoleIds \cup {Undefined} :
         LET out == updateAdmin(DB, u, id, n, e, r)
             old == admins[id]
             checks == /\ e # Undefined => \A o \in DOMAIN admins \ {id} : admins[o].email # e
                       /\ r # Undefined => r \in DOMAIN roles
         IN
         IF RoleNameOf(id) = SUPER_ADMIN \/ ~checks
         THEN out.err # OK /\ out.db = DB
         ELSE out = Ok([DB EXCEPT !.admins[id] =
                          [name |-> IF n \in AdminNames THEN n ELSE old.name,
                           email |-> IF e # Undefined THEN e ELSE old.email,
                           phoneNo |-> old.phoneNo,
                           roleId |-> IF r # Undefined THEN r ELSE old.roleId]])

\* deleteAdmin was refused for the SUPER_ADMIN admin while another admin, of
\* another role, is there to update
C10_Witness ==
  /\ reply.op = "deleteAdmin"
  /\ reply.err = "Cannot delete SUPER_ADMIN"
  /\ \E a, b \in DOMAIN admins : RoleNameOf(a) = SUPER_ADMIN /\ RoleNameOf(b) = ADMIN

\* ------------------------------------------------------------------ C11
InvalidIds == "One or more permission IDs are invalid"
PermissionsOf(db, r) == {rp.permissionId : rp \in {x \in db.rolePermissions : x.roleId = r}}

\* C11: createRole or updateRole by a SUPER_ADMIN with a permissionIds list
\* naming an id that is not in the Permission table fails and writes nothing
\* (no Role is created; the Role keeps its name, description and permission
\* rows), and the error is "One or more permission IDs are invalid" whenever
\* the checks that come first (the role exists, the name is free) pass.
C11_InvalidIdsWriteNothing ==
  \A u \in Authorized({"SUPER_ADMIN"}), ps \in PermissionIdLists :
    ~(Range(ps) \subseteq DOMAIN permissions) =>
      /\ \A id \in RoleIds \ DOMAIN roles, n \in NameInputs, d \in Descriptions :
           LET out == createRole(DB, u, id, n, d, ps) IN
           /\ out.err # OK
           /\ out.db = DB
           /\ RoleByName(DB, NormalizeName(n)) = {} => out.err = InvalidIds
      /\ \A id \in DOMAIN roles, n \in NameInputs \cup {Omitted}, d \in Descriptions :
           LET out == updateRole(DB, u, id, n, d, ps) IN
           /\ out.err # OK
           /\ out.db = DB
           /\ (n = Omitted \/ RoleByName(DB, NormalizeName(n)) \subseteq {id})
                => out.err = InvalidIds

\* updateRole was refused for an unknown permission id on a role that holds
\* permissions
C11_Witness ==
  /\ reply.op = "updateRole"
  /\ reply.err = InvalidIds
  /\ \E r \in DOMAIN roles : PermissionsOf(DB, r) # {}
  /\ ~(PermissionIds \subseteq DOMAIN permissions)

\* ------------------------------------------------------------------ C12
\* a store like db in which one admin is bound to role r
WithAdmin(db, r) ==
  [db EXCEPT !.admins = "adm1" :> [name |-> "Asha", email |-> "a@corp", phoneNo |-> "9990",
                                   roleId |-> r]]

\* C12: deletePermission on a Permission that a RolePermission row refers to
\* fails with "Cannot delete permission assigned to roles", deleteRole on a
\* Role that an Admin refers to fails with "Cannot delete role assigned to
\* admins", and neither removes anything; deletePermission on an unreferenced
\* Permission removes just it, and deleteRole on an unreferenced Role removes
\* its RolePermission rows and the Role.
C12_DeleteBlockedByReferences ==
  \A u \in Authorized({"SUPER_ADMIN"}) :
    /\ \A p \in DOMAIN permissions :
         deletePermission(DB, u, p) =
           IF \E rp \in rolePermissions : rp.permissionId = p
           THEN Fail(DB, "Cannot delete permission assigned to roles")
           ELSE Ok([DB EXCEPT !.permissions = Drop(@, p)])
    /\ \A r \in DOMAIN roles :
         /\ deleteRole(DB, u, r) =
              IF \E a \in DOMAIN admins : admins[a].roleId = r
              THEN Fail(DB, "Cannot delete role assigned to admins")
              ELSE Ok([DB EXCEPT !.rolePermissions = {rp \in @ : rp.roleId # r},
                                 !.roles = Drop(@, r)])
         /\ deleteRole(WithAdmin(DB, r), u, r) =
              Fail(WithAdmin(DB, r), "Cannot delete role assigned to admins")

\* deletePermission was refused for a permission that a role holds
C12_Witness ==
  /\ reply.op = "deletePermission"
  /\ reply.err = "Cannot delete permission assigned to roles"
  /\ rolePermissions # {}

\* ------------------------------------------------------------------ C13
\* lists that name ids of the Permission table, each id once
ValidLists ==
  {ps \in PermissionIdLists :
     Range(ps) \subseteq DOMAIN permissions /\ Cardinality(Range(ps)) = Len(ps)}

\* C13: assignPermissionsToRole by a SUPER_ADMIN on an existing Role with ids
\* that all exist is additive and idempotent: the Role's permission set
\* becomes its previous set united with the ids, no row is removed, nothing
\* else changes, and the same call made again succeeds and changes nothing.
C13_AssignAdditiveIdempotent ==
  \A u \in Authorized({"SUPER_ADMIN"}), r \in DOMAIN roles, ps \in ValidLists :
    LET out == assignPermissionsToRole(DB, u, r, ps) IN
    /\ out = Ok([DB EXCEPT !.rolePermissions =
                   @ \cup {[roleId |-> r, permissionId |-> p] : p \in Range(ps)}])
    /\ PermissionsOf(out.db, r) = PermissionsOf(DB, r) \cup Range(ps)
    /\ assignPermissionsToRole(out.db, u, r, ps) = Ok(out.db)

\* permissions were assigned to a role, which now holds two
C13_Witness ==
  /\ reply.op = "assignPermissionsToRole"
  /\ reply.err = OK
  /\ \E r \in DOMAIN roles : Cardinality(PermissionsOf(DB, r)) = 2

\* ------------------------------------------------------------------ C14
\* C14: a successful updateRole with a permissionIds list replaces the Role's
\* permission set by exactly the listed ids (the empty list clears it),
\* whatever the set was; with permissionIds omitted the set stays; the rows
\* of other roles stay in both cases.  A list of existing ids, each once,
\* with a free name does succeed.
C14_UpdateReplacesPermissions ==
  \A u \in Authorized({"SUPER_ADMIN"}), r \in DOMAIN roles, n \in NameInputs \cup {Omitted},
     d \in Descriptions, ps \in PermissionIdLists \cup {Omitted} :
    \A out \in {updateRole(DB, u, r, n, d, ps)} :
    /\ out.err = OK =>
         /\ PermissionsOf(out.db, r) =
              IF ps = Omitted THEN PermissionsOf(DB, r) ELSE Range(ps)
         /\ \A o \in DOMAIN roles \ {r} : PermissionsOf(out.db, o) = PermissionsOf(DB, o)
    /\ ((ps = Omitted \/ ps \in ValidLists)
          /\ (n = Omitted \/ RoleByName(DB, NormalizeName(n)) \subseteq {r}))
         => out.err = OK

\* updateRole succeeded and a role holds one of the two permissions there are
C14_Witness ==
  /\ reply.op = "updateRole"
  /\ reply.err = OK
  /\ PermissionIds \subseteq DOMAIN permissions
  /\ \E r \in DOMAIN roles : Cardinality(PermissionsOf(DB, r)) = 1

\* ------------------------------------------------------------------ C15
AllNameInputs == NameInputs \cup PermissionNameInputs

\* no lower-case letter, no whitespace at either end
IsNormalForm(name) ==
  /\ \A i \in 1..Len(name) : name[i] \notin Range(Lower)
  /\ name # <<>> => (name[1] \notin Whitespace /\ name[Len(name)] \notin Whitespace)

\* stored is raw without its surrounding whitespace, letter for letter up to case
IsNormalFormOf(stored, raw) ==
  /\ IsNormalForm(stored)
  /\ \E lo \in 1..(Len(raw) + 1) :
       /\ \A i \in 1..Len(raw) :
            (i < lo \/ i >= lo + Len(stored)) => raw[i] \in Whitespace
       /\ lo + Len(stored) - 1 <= Len(raw)
       /\ \A i \in 1..Len(stored) :
            UpperChar(raw[lo + i - 1]) = stored[i]

\* C15: every Permission or Role name written by createPermission,
\* updatePermission, createRole or updateRole is the trimmed, upper-cased form
\* of the name given, for every casing and surrounding whitespace
\* ("create_reports" is stored as "CREATE_REPORTS"); every stored name is in
\* that form.  An update whose name trims to nothing leaves the name.
C15_NamesStoredNormalized ==
  /\ \A p \in DOMAIN permissions : IsNormalForm(permissions[p].name)
  /\ \A r \in DOMAIN roles : IsNormalForm(roles[r].name)
  /\ \A u \in Authorized({"SUPER_ADMIN"}), n \in AllNameInputs, d \in {Undefined} :
       /\ \A id \in PermissionIds :
            /\ \A out \in {createPermission(DB, u, id, n, d)} :
                 out.err = OK => IsNormalFormOf(out.db.permissions[id].name, n)
            /\ \A out \in {updatePermission(DB, u, id, n, d)} :
                 out.err = OK =>
                   \/ IsNormalFormOf(out.db.permissions[id].name, n) /\ trim(n) # <<>>
                   \/ trim(n) = <<>> /\ out.db.permissions[id].name = permissions[id].name
       /\ \A id \in RoleIds :
            /\ \A out \in {createRole(DB, u, id, n, d, <<>>)} :
                 out.err = OK => IsNormalFormOf(out.db.roles[id].name, n)
            /\ \A out \in {updateRole(DB, u, id, n, d, Omitted)} :
                 out.err = OK =>
                   \/ IsNormalFormOf(out.db.roles[id].name, n) /\ trim(n) # <<>>
                   \/ trim(n) = <<>> /\ out.db.roles[id].name = roles[id].name

\* "create_reports" was given to createPermission and CREATE_REPORTS is stored
C15_Witness ==
  /\ reply.op = "createPermission"
  /\ reply.err = OK
  /\ \E p \in DOMAIN permissions :
       permissions[p].name = <<"C", "R", "E", "A", "T", "E", "_", "R", "E", "P", "O", "R", "T", "S">>
  /\ \E r \in DOMAIN roles : roles[r].name = SUPER_ADMIN

\* ------------------------------------------------------------------ C16
\* no two Permissions and no two Roles share a stored name
NamesUnique ==
  /\ \A p, q \in DOMAIN permissions : permissions[p].name = permissions[q].name => p = q
  /\ \A r, q \in DOMAIN roles : roles[r].name = roles[q].name => r = q

\* C16: names are unique after normalization in every reachable state, also
\* when create and update calls run concurrently, and a create or rename whose
\* normalized name another record holds fails with its AlreadyExists message
\* ("Permission already exists", "Permission name already exists") and writes
\* nothing.
C16_DuplicateFailsAsAlreadyExists ==
  /\ NamesUnique
  /\ (reply.op = "createPermission" /\ reply.role = "SUPER_ADMIN" /\ reply.err # OK)
       => reply.err = "Permission already exists"
  /\ (reply.op = "updatePermission" /\ reply.role = "SUPER_ADMIN"
        /\ reply.err \notin {OK, "Permission not found"})
       => reply.err = "Permission name already exists"

\* ------------------------------------------------------------------ C17
\* C17: in every reachable state every Admin is bound to one existing Role.
\* createAdmin and updateAdmin given a role id that does not exist fail and
\* leave the store as it was, createAdmin with an email in use fails with
\* "Email already exists" and creates nothing, and with deleteRole interleaved
\* with createAdmin and updateAdmin at their awaits no Admin is left with the
\* roleId of a deleted Role.
C17_AdminsBoundToExistingRole ==
  /\ \A a \in DOMAIN admins : admins[a].roleId \in DOMAIN roles
  /\ \A u \in Authorized({"SUPER_ADMIN"}), n \in AdminNames, e \in AdminEmails :
       /\ \A r \in RoleIds \ DOMAIN roles :
            /\ \A id \in AdminIds \ DOMAIN admins, ph \in AdminPhones :
                 LET out == createAdmin(DB, u, id, n, e, ph, r) IN
                 out.err # OK /\ out.db = DB
            /\ \A a \in DOMAIN admins :
                 /\ updateAdmin(DB, u, a, n, e, r).err # OK
                 /\ updateAdmin(DB, u, a, n, e, r).db = DB
                 /\ AdminUpdate(DB, a, n, e, r).err # OK
                 /\ AdminUpdate(DB, a, n, e, r).db = DB
       /\ (\E a \in DOMAIN admins : admins[a].email = e) =>
            \A id \in AdminIds \ DOMAIN admins, ph \in AdminPhones, r \in RoleIds :
              createAdmin(DB, u, id, n, e, ph, r) = Fail(DB, "Email already exists")

\* deleteRole found no admin on the role, createAdmin then bound one to it, and
\* the delete was refused: the admin's role is still there
C17_Witness ==
  /\ reply.op = "deleteRole"
  /\ reply.err = P2003
  /\ \E a \in DOMAIN admins : admins[a].roleId \in DOMAIN roles
  /\ Cardinality(DOMAIN roles) = 1

\* ------------------------------------------------------------------ C18
\* deleteUser on a live user marks it, and every call on a marked user fails
SoftDeleteOutcome ==
  \A id \in DOMAIN users :
    IF ~users[id].isDeleted
    THEN \A u \in Authorized({"ADMIN"}) :
           deleteUser(DB, u, id) =
             Ok([DB EXCEPT !.users = [@ EXCEPT ![id] =
                   [mobile |-> users[id].mobile, isActive |-> FALSE, isDeleted |-> TRUE]]])
    ELSE \A u \in Users :
           /\ deleteUser(DB, u, id).db = DB
           /\ deleteUser(DB, u, id).err # OK
           /\ HasRole(u, {"ADMIN"}) => deleteUser(DB, u, id).err = "User not found"
           /\ \A data \in UpdateUserInputs :
                /\ updateUser(DB, u, id, data).db = DB
                /\ updateUser(DB, u, id, data).err # OK
                /\ HasRole(u, {"ADMIN"}) => updateUser(DB, u, id, data).err = "User not found"

\* no step removes a User row, and a marked row stays as it is
UsersKept ==
  \A id \in DOMAIN users :
    /\ id \in DOMAIN users'
    /\ users[id].isDeleted => users'[id] = users[id]

\* C18: users are only soft-deleted.  A successful deleteUser(u) sets
\* isDeleted = true and isActive = false and keeps the record; every later
\* updateUser or deleteUser on u fails with "User not found" and leaves the
\* record as it is; no operation removes a User record or turns isDeleted
\* back to false.
C18_UsersOnlySoftDeleted == []SoftDeleteOutcome /\ [][UsersKept]_vars

\* every user is soft-deleted and still stored, and an updateUser on one of
\* them has just been refused
C18_Witness ==
  /\ reply.op = "updateUser"
  /\ reply.err = "User not found"
  /\ DOMAIN users = UserIds
  /\ \A id \in UserIds : users[id].isDeleted /\ ~users[id].isActive

\* ------------------------------------------------------------------ C19
\* C19: updateUser whose data.mobile is the mobile of a different User fails
\* with "Mobile already in use" and leaves the target User unchanged.
C19_DuplicateMobileRejected ==
  \A u \in Authorized({"ADMIN"}), id \in DOMAIN users, data \in UpdateUserInputs :
    (/\ ~users[id].isDeleted
     /\ "mobile" \in DOMAIN data
     /\ \E o \in DOMAIN users \ {id} : users[o].mobile = data.mobile)
      => updateUser(DB, u, id, data) = Fail(DB, "Mobile already in use")

\* ------------------------------------------------------------------ C20
\* C20: a call rejected by its guard or a domain check surfaces that
\* operation's own message, never a generic replacement; a caller who is not
\* SUPER_ADMIN, or not authenticated, calling getAdmins receives
\* "Only SUPER_ADMIN can view admins".
C20_OwnMessageSurfaced ==
  /\ (reply.op = "getAdmins" /\ reply.role # "SUPER_ADMIN")
       => reply.err = "Only SUPER_ADMIN can view admins"
  /\ (reply.op \in {"createAdmin", "deleteAdmin"} /\ reply.role # "SUPER_ADMIN")
       => reply.err \in GuardMessages

\* ------------------------------------------------------------------ C21
\* C21: a failure of the audit log sink, at connecting or at inserting, never
\* changes the primary operation: loginAdmin, createAdmin and addAstrologer
\* return the same result or the same error, and leave the same store, as
\* they do when the sink works.
C21_SinkFailureChangesNothing ==
  \A sink \in Sinks :
    /\ \A e \in AdminEmails, valid \in BOOLEAN :
         adminLoginService(DB, sink, e, valid) = adminLoginService(DB, "up", e, valid)
    /\ \A id \in AdminIds \ DOMAIN admins, n \in AdminNames, e \in AdminEmails,
          ph \in AdminPhones, r \in RoleIds :
         /\ createAdminServiceLogging(DB, sink, id, n, e, ph, r)
              = createAdminServiceLogging(DB, "up", id, n, e, ph, r)
         /\ createAdminServiceLogging(DB, sink, id, n, e, ph, r)
              = createAdminService(DB, id, n, e, ph, r)
    /\ \A id \in AstroIds \ DOMAIN astrologers, e \in AstroEmails :
         /\ addAstrologerServiceLogging(DB, sink, id, e)
              = addAstrologerServiceLogging(DB, "up", id, e)
         /\ addAstrologerServiceLogging(DB, sink, id, e) = addAstrologerService(DB, id, e)

\* createAdmin succeeded while the sink was failing, and the admin is stored
C21_Witness ==
  /\ reply.op = "createAdmin"
  /\ reply.err = OK
  /\ reply.sink # "up"
  /\ admins # EmptyFn
  /\ astrologers # EmptyFn

\* ------------------------------------------------------------------ C22
\* C22: every astrologer created through addAstrologer starts with
\* approvalStatus PENDING and with no Interview, AstrologerDocument or
\* RejectionHistory row; an addAstrologer whose email another astrologer
\* uses fails and creates nothing.
C22_NewAstrologerStartsPending ==
  \A u \in Authorized({"SUPER_ADMIN", "MANAGER"}), id \in AstroIds \ DOMAIN astrologers,
     e \in AstroEmails :
    LET out == addAstrologer(DB, u, id, e) IN
    IF \E a \in DOMAIN astrologers : astrologers[a].email = e
    THEN out.err # OK /\ out.db = DB
    ELSE /\ out.err = OK
         /\ out.db = [DB EXCEPT !.astrologers =
                        Put(@, id, [email |-> e, approvalStatus |-> "PENDING"])]
         /\ ChildRows(out.db, id).interviews = {}
         /\ ChildRows(out.db, id).documents = {}
         /\ ChildRows(out.db, id).rejectionHistory = {}

\* an astrologer was just added and is PENDING without rows, next to one that
\* has been through the workflow and has rows
C22_Witness ==
  /\ reply.op = "addAstrologer"
  /\ reply.err = OK
  /\ \E a, b \in DOMAIN astrologers :
       /\ StatusOf(a) = "PENDING" /\ InterviewsOf(a) = {} /\ RowsOf(a) = {}
       /\ StatusOf(b) = "REJECTED" /\ InterviewsOf(b) # {} /\ RowsOf(b) # {}

\* ------------------------------------------------------------------ C23
\* the store with a second document of astrologer a, in status st
WithSecondDocument(db, a, st) ==
  [db EXCEPT !.documents =
     Put(@, MaxDocument + 1,
         [astrologerId |-> a, documentType |-> "CERTIFICATE", status |-> st,
          verifiedBy |-> Null, verifiedAt |-> FALSE, remarks |-> Null])]

\* db with document d verified by user: the four fields, nothing else
Verified(db, user, d, st, rm) ==
  [db EXCEPT !.documents = [@ EXCEPT ![d] =
     [astrologerId |-> db.documents[d].astrologerId,
      documentType |-> db.documents[d].documentType,
      status |-> st, remarks |-> rm, verifiedBy |-> user.id, verifiedAt |-> TRUE]]]

\* C23: verifyDocument(documentId, status, remarks) by an ADMIN changes only
\* the status, remarks, verifiedBy (the caller's id) and verifiedAt of that one
\* AstrologerDocument; the owning astrologer's approvalStatus, every other
\* document and every other record stay as they are, whatever the resulting
\* document statuses are: verifying all documents does not approve the
\* astrologer.
C23_VerifyChangesOneDocument ==
  \A u \in Actors("ADMIN"), d \in DOMAIN documents, st \in DocumentStatus, rm \in Remarks :
    /\ verifyDocument(DB, u, d, st, rm) = Ok(Verified(DB, u, d, st, rm))
    /\ \A other \in DocumentStatus :
         LET db == WithSecondDocument(DB, documents[d].astrologerId, other) IN
         /\ verifyDocument(db, u, d, st, rm) = Ok(Verified(db, u, d, st, rm))
         /\ verifyDocument(db, u, MaxDocument + 1, st, rm)
              = Ok(Verified(db, u, MaxDocument + 1, st, rm))

\* every document of an astrologer is VERIFIED by an ADMIN and the astrologer
\* is not approved
C23_Witness ==
  /\ reply.op = "verifyDocument"
  /\ reply.err = OK
  /\ \E d \in DOMAIN documents :
       /\ documents[d].status = "VERIFIED"
       /\ documents[d].verifiedBy \in CallerIds
       /\ documents[d].verifiedAt
       /\ astrologers[documents[d].astrologerId].approvalStatus = "PENDING"
       /\ addresses # {}

\* ------------------------------------------------------------------ C24
\* C24: the actor reconstructed from an access token issued by loginAdmin
\* carries the role name of the admin who logged in: an admin whose role is R
\* passes, with that token, the guard of every operation whose allowed set
\* contains R.
C24_TokenCarriesRole ==
  \A a \in DOMAIN admins, sink \in Sinks :
    LET login == adminLoginService(DB, sink, admins[a].email, TRUE)
        user == verifyAccessToken(login.token)
        R == RoleClaim(roles[admins[a].roleId].name)
    IN /\ login.err = OK
       /\ user.id = a
       /\ user.role = R
       /\ HasRole(user, {R})

\* ------------------------------------------------------------------ C25
\* the role an admin holds in the directory now
CurrentRole(a) ==
  IF a \in DOMAIN admins THEN RoleClaim(roles[admins[a].roleId].name) ELSE "NONE"

\* C25: authorization follows the current committed state of the admin
\* directory: after deleteAdmin(A) has succeeded, or after updateAdmin has
\* changed A's role, a request A makes with a credential issued before is
\* authorized only according to A's current role, and not at all if A was
\* deleted.
C25_AuthorizationFollowsDirectory ==
  \A u \in Users :
    u.id \in AdminIds =>
      /\ getAdmins(DB, u).err = OK => CurrentRole(u.id) = "SUPER_ADMIN"
      /\ \A id \in UserIds :
           deleteUser(DB, u, id).err # "Admin only" => CurrentRole(u.id) = "ADMIN"
      /\ logoutAdmin(DB, u).err = OK => u.id \in DOMAIN admins

\* ------------------------------------------------------------------ C26
\* an admin bound to the role named SUPER_ADMIN is, after the step, the same
\* record bound to a role of that name
SuperAdminsKept ==
  \A a \in DOMAIN admins :
    RoleNameOf(a) = SUPER_ADMIN =>
      /\ a \in DOMAIN admins'
      /\ admins'[a] = admins[a]
      /\ admins'[a].roleId \in DOMAIN roles'
      /\ roles'[admins'[a].roleId].name = SUPER_ADMIN

\* C26: once an Admin is bound to the role named SUPER_ADMIN, no sequence of
\* createRole, updateRole, deleteRole, assignPermissionsToRole, createAdmin,
\* updateAdmin and deleteAdmin modifies or deletes that Admin record, or makes
\* that Admin cease to hold SUPER_ADMIN.
C26_SuperAdminHolderImmutable == [][SuperAdminsKept]_vars

\* ------------------------------------------------------------------ C27
\* C27: in every reachable state, the interleavings of the database steps of
\* concurrent updateUser and deleteUser calls on one user included, a User
\* with isDeleted = true has isActive = false.
C27_DeletedUsersInactive ==
  \A id \in DOMAIN users : users[id].isDeleted => ~users[id].isActive

\* ------------------------------------------------------------------ C28
\* C28: a deleteRole call that fails leaves the Role and its RolePermission
\* rows exactly as they were, also when a createAdmin or updateAdmin that
\* binds an Admin to the Role commits between deleteRole's check for
\* referencing Admins and its two deletes.  Here each Role starts with the
\* row for p1 and only deleteRole removes rows: once no deleteRole call is
\* under way, every Role still there has its row.
C28_FailedDeleteRoleKeepsRows ==
  (reply.op = "deleteRole" /\ reply.err # OK /\ InFlight("deleteRole") = {}) =>
    \A r \in DOMAIN roles : PermissionsOf(DB, r) = {"p1"}

\* ------------------------------------------------------------------ C29
\* C29: in every reachable state, the states between the two writes of
\* rejectAstrologer included, an astrologer whose approvalStatus is REJECTED
\* has at least one RejectionHistory row: rejectAstrologer writes the row
\* before the status, and nothing removes a row of an astrologer that exists.
C29_RejectedHasHistory ==
  /\ \A a \in DOMAIN astrologers : StatusOf(a) = "REJECTED" => RowsOf(a) # {}
  /\ \A i \in DOMAIN rejectionHistory : rejectionHistory[i].astrologerId \in DOMAIN astrologers

\* a rejectAstrologer call is between its two writes, its row written and the
\* status not yet REJECTED, next to an astrologer whose rejection is complete
C29_Witness ==
  \E s \in InFlight("rejectAstrologer"), b \in DOMAIN astrologers :
    /\ calls[s].astrologerId \in DOMAIN astrologers
    /\ StatusOf(calls[s].astrologerId) # "REJECTED"
    /\ RowsOf(calls[s].astrologerId) # {}
    /\ StatusOf(b) = "REJECTED"
    /\ RowsOf(b) # {}

\* ------------------------------------------------------------------ C30
\* C30: createRole, updateRole and assignPermissionsToRole fail with
\* "One or more permission IDs are invalid" only when a supplied id is absent
\* from the Permission table: a list whose ids all exist is accepted, also
\* when it names an id more than once.
C30_ExistingIdsAccepted ==
  \A u \in Authorized({"SUPER_ADMIN"}), ps \in PermissionIdLists :
    Range(ps) \subseteq DOMAIN permissions =>
      /\ \A r \in DOMAIN roles :
           /\ assignPermissionsToRole(DB, u, r, ps).err = OK
           /\ updateRole(DB, u, r, Omitted, Undefined, ps).err = OK
      /\ \A id \in RoleIds \ DOMAIN roles, n \in NameInputs :
           createRole(DB, u, id, n, Undefined, ps).err # InvalidIds

====
